---- MODULE Spec2Model ----
(***************************************************************************)
(* Track resolution service of MixTape (YouTubeService): two-tier cache,   *)
(* API key rotation on quota exhaustion, best-match scoring and the batch  *)
(* pipeline searchTracks.                                                  *)
(*                                                                         *)
(* Text that the code lowercases or searches (track names, artist names,   *)
(* video titles, ISO-8601 durations) is a sequence of one-character        *)
(* strings; opaque text (video ids, urls, channel names) is a string.      *)
(* JavaScript null/undefined is NULL for objects and NullStr for strings.  *)
(***************************************************************************)
EXTENDS Integers, Sequences, FiniteSets, TLC

\* ------------------------------------------------------------------ bounds
MaxKeys == 2        \* at most this many configured API keys
MaxBatch == 2       \* at most this many tracks in one searchTracks call
MaxVideos == 2      \* at most this many candidates in a list handed to a scorer
MaxCalls == 2       \* at most this many calls in a row of an operation studied on its own
MaxViews == 4       \* at most this many incrementViewCount calls
MaxTracks == 3      \* at most this many tracks in the playlist of a mixtape

\* ------------------------------------------------------- program constants
DURATION_TOLERANCE_MS == 15000
SLEEP_MS == 100

NULL == [null |-> TRUE]
NullStr == "null"

\* --------------------------------------------------------------- text
UpperChars == <<"A", "B", "C", "D", "E", "F", "G", "H", "I", "J", "K", "L", "M",
                "N", "O", "P", "Q", "R", "S", "T", "U", "V", "W", "X", "Y", "Z">>
LowerChars == <<"a", "b", "c", "d", "e", "f", "g", "h", "i", "j", "k", "l", "m",
                "n", "o", "p", "q", "r", "s", "t", "u", "v", "w", "x", "y", "z">>

LowerChar(c) ==
    IF \E k \in 1..Len(UpperChars) : UpperChars[k] = c
    THEN LowerChars[CHOOSE k \in 1..Len(UpperChars) : UpperChars[k] = c]
    ELSE c

\* String.prototype.toLowerCase
ToLowerCase(s) == [k \in 1..Len(s) |-> LowerChar(s[k])]

\* String.prototype.includes
Includes(s, term) ==
    \E k \in 0..(Len(s) - Len(term)) : SubSeq(s, k + 1, k + Len(term)) = term

sSep == <<" ", "-", " ">>
sOfficial == <<"o", "f", "f", "i", "c", "i", "a", "l">>
sAudio == <<"a", "u", "d", "i", "o">>
sMusicVideo == <<"m", "u", "s", "i", "c", " ", "v", "i", "d", "e", "o">>
sCover == <<"c", "o", "v", "e", "r">>
sRemix == <<"r", "e", "m", "i", "x">>
sLive == <<"l", "i", "v", "e">>
sKaraoke == <<"k", "a", "r", "a", "o", "k", "e">>
sInstrumental == <<"i", "n", "s", "t", "r", "u", "m", "e", "n", "t", "a", "l">>
sLyrics == <<"l", "y", "r", "i", "c", "s">>

\* `${artistName} - ${trackName}`.toLowerCase()
CacheKey(trackName, artistName) == ToLowerCase(artistName \o sSep \o trackName)

\* ---------------------------------------------------- parseISO8601Duration
DigitChars == <<"0", "1", "2", "3", "4", "5", "6", "7", "8", "9">>
IsDigit(c) == \E k \in 1..Len(DigitChars) : DigitChars[k] = c
DigitVal(c) == (CHOOSE k \in 1..Len(DigitChars) : DigitChars[k] = c) - 1

RECURSIVE ParseInt(_)
ParseInt(ds) ==
    IF ds = <<>> THEN 0
    ELSE ParseInt(SubSeq(ds, 1, Len(ds) - 1)) * 10 + DigitVal(ds[Len(ds)])

\* index of the first "PT" of d, 0 when there is none (the regex is unanchored)
FirstPT(d) ==
    LET hits == {k \in 1..(Len(d) - 1) : d[k] = "P" /\ d[k + 1] = "T"}
    IN IF hits = {} THEN 0 ELSE CHOOSE k \in hits : \A j \in hits : k <= j

\* length of the run of digits of d that starts at pos
DigitRun(d, pos) ==
    LET ends == {n \in 0..(Len(d) - pos + 1) :
                    \A k \in pos..(pos + n - 1) : IsDigit(d[k])}
    IN CHOOSE n \in ends : \A m \in ends : m <= n

\* the optional group (?:(\d+)U)? tried at pos
DurationGroup(d, pos, unit) ==
    LET n == DigitRun(d, pos)
    IN IF n >= 1 /\ pos + n <= Len(d) /\ d[pos + n] = unit
       THEN [val |-> ParseInt(SubSeq(d, pos, pos + n - 1)), next |-> pos + n + 1]
       ELSE [val |-> 0, next |-> pos]

parseISO8601Duration(duration) ==
    LET k == FirstPT(duration)
        h == DurationGroup(duration, k + 2, "H")
        m == DurationGroup(duration, h.next, "M")
        s == DurationGroup(duration, m.next, "S")
    IN IF k = 0 THEN 0 ELSE (h.val * 3600 + m.val * 60 + s.val) * 1000

\* ------------------------------------------------- JavaScript numbers
\* The score is a JavaScript number, an IEEE 754 double: every division,
\* multiplication, addition and subtraction rounds its exact result to 53
\* significant bits, ties to even.  The values of the scorer are below 256 in
\* magnitude and are multiples of 2^-67, so a magnitude is kept exactly as
\* NumLimbs digits of LimbBits bits, lowest digit first, in units of 2^-67.
LimbBits == 15
NumLimbs == 5
UnitShift == 7          \* 2^67 is 2^7 in the top digit
Mantissa == 53

RECURSIVE Pow2(_)
Pow2(k) == IF k = 0 THEN 1 ELSE 2 * Pow2(k - 1)

LimbBase == Pow2(LimbBits)
LimbIdx == 1..NumLimbs
ZeroM == [n \in LimbIdx |-> 0]
\* an integer below 256 as a magnitude
FromInt(n) == [k \in LimbIdx |-> IF k = NumLimbs THEN n * Pow2(UnitShift) ELSE 0]

RECURSIVE CarryIn(_, _, _)
CarryIn(a, b, k) ==
    IF k = 1 THEN 0 ELSE (a[k - 1] + b[k - 1] + CarryIn(a, b, k - 1)) \div LimbBase
AddM(a, b) == [k \in LimbIdx |-> (a[k] + b[k] + CarryIn(a, b, k)) % LimbBase]

RECURSIVE BorrowIn(_, _, _)
BorrowIn(a, b, k) ==
    IF k = 1 THEN 0
    ELSE IF a[k - 1] - b[k - 1] - BorrowIn(a, b, k - 1) < 0 THEN 1 ELSE 0
\* a - b for a >= b
SubM(a, b) == [k \in LimbIdx |-> (a[k] - b[k] - BorrowIn(a, b, k) + LimbBase) % LimbBase]

LessM(a, b) == \E k \in LimbIdx : a[k] < b[k] /\ \A j \in (k + 1)..NumLimbs : a[j] = b[j]

RECURSIVE MulCarryIn(_, _, _)
MulCarryIn(a, c, k) ==
    IF k = 1 THEN 0 ELSE (a[k - 1] * c + MulCarryIn(a, c, k - 1)) \div LimbBase
\* a * c for a small integer c
MulSmallM(a, c) == [k \in LimbIdx |-> (a[k] * c + MulCarryIn(a, c, k)) % LimbBase]

RECURSIVE BitLenInt(_)
BitLenInt(n) == IF n = 0 THEN 0 ELSE 1 + BitLenInt(n \div 2)
\* the number of significant bits of a magnitude
BitLen(a) ==
    IF a = ZeroM THEN 0
    ELSE LET top == CHOOSE k \in LimbIdx : a[k] # 0 /\ \A j \in (k + 1)..NumLimbs : a[j] = 0
         IN LimbBits * (top - 1) + BitLenInt(a[top])

\* the lowest n bits of a
LowBits(a, n) ==
    [k \in LimbIdx |-> IF LimbBits * k <= n THEN a[k]
                       ELSE IF LimbBits * (k - 1) < n
                            THEN a[k] % Pow2(n - LimbBits * (k - 1))
                            ELSE 0]
\* 2^n as a magnitude
Pow2M(n) ==
    [k \in LimbIdx |-> IF LimbBits * (k - 1) <= n /\ n < LimbBits * k
                       THEN Pow2(n - LimbBits * (k - 1)) ELSE 0]
\* bit n of a, bit 0 the lowest
BitAt(a, n) == (a[(n \div LimbBits) + 1] \div Pow2(n % LimbBits)) % 2

\* Round to nearest, ties to even, to 53 significant bits; inexact says that the
\* exact value is a little above a (the rest of a quotient).
RoundM(a, inexact) ==
    LET n == BitLen(a) - Mantissa
        low == LowBits(a, n)
        half == Pow2M(n - 1)
        up == \/ LessM(half, low)
              \/ low = half /\ (inexact \/ BitAt(a, n) = 1)
    IN IF n <= 0 THEN a
       ELSE IF up THEN AddM(SubM(a, low), Pow2M(n)) ELSE SubM(a, low)

\* n / c for integers 0 <= n <= c < 2^14: the digits of the quotient by long
\* division from the top digit, and whether a remainder is left
RECURSIVE DivRem(_, _, _)
DivRem(n, c, k) ==
    IF k > NumLimbs THEN (n * Pow2(UnitShift)) \div LimbBase
    ELSE LET digit == IF k = NumLimbs THEN (n * Pow2(UnitShift)) % LimbBase ELSE 0
         IN (DivRem(n, c, k + 1) * LimbBase + digit) % c
DivDigit(n, c, k) ==
    LET digit == IF k = NumLimbs THEN (n * Pow2(UnitShift)) % LimbBase ELSE 0
    IN (DivRem(n, c, k + 1) * LimbBase + digit) \div c
DivM(n, c) == RoundM([k \in LimbIdx |-> DivDigit(n, c, k)], DivRem(n, c, 1) # 0)

\* a number: sign and magnitude
Num(neg, mag) == [neg |-> neg, mag |-> mag]
\* a + b, rounded
AddN(a, b) ==
    IF a.neg = b.neg THEN Num(a.neg, RoundM(AddM(a.mag, b.mag), FALSE))
    ELSE IF LessM(a.mag, b.mag) THEN Num(b.neg, RoundM(SubM(b.mag, a.mag), FALSE))
    ELSE Num(a.neg /\ a.mag # b.mag, RoundM(SubM(a.mag, b.mag), FALSE))
\* a >= b
GreaterOrEqualN(a, b) ==
    IF a.neg /\ b.neg THEN ~LessM(b.mag, a.mag)
    ELSE IF a.neg THEN FALSE
    ELSE IF b.neg THEN TRUE
    ELSE ~LessM(a.mag, b.mag)

\* a > b
GreaterN(a, b) ==
    IF a.neg /\ b.neg THEN LessM(a.mag, b.mag)
    ELSE IF a.neg THEN FALSE
    ELSE IF b.neg THEN TRUE
    ELSE LessM(b.mag, a.mag)
RECURSIVE AddTimes(_, _, _)
\* score += c, n times
AddTimes(score, c, n) == IF n = 0 THEN score ELSE AddTimes(AddN(score, c), c, n - 1)

\* ----------------------------------------------------------- findBestMatch
Abs(x) == IF x < 0 THEN 0 - x ELSE x

SearchTerms(trackName, artistName) ==
    <<ToLowerCase(trackName), ToLowerCase(artistName), sOfficial, sAudio, sMusicVideo>>
BadTerms == <<sCover, sRemix, sLive, sKaraoke, sInstrumental, sLyrics>>

CountIncluded(title, terms) == Cardinality({k \in 1..Len(terms) : Includes(title, terms[k])})

\* the score with a penalty of 10 for a bad term
ScoreOfLightPenalty(durationDiff, bonuses, penalties) ==
    LET scaled == RoundM(MulSmallM(DivM(durationDiff, DURATION_TOLERANCE_MS), 50), FALSE)
        base == AddN(Num(FALSE, FromInt(100)), Num(scaled # ZeroM, scaled))
    IN AddTimes(AddTimes(base, Num(FALSE, FromInt(10)), bonuses),
                Num(TRUE, FromInt(10)), penalties)

\* let score = 100 - (durationDiff / DURATION_TOLERANCE_MS) * 50, then score += 10
\* for each search term in the title, then score -= 20 for each bad term in it;
\* every operation rounds as JavaScript does
ScoreOf(durationDiff, bonuses, penalties) ==
    LET scaled == RoundM(MulSmallM(DivM(durationDiff, DURATION_TOLERANCE_MS), 50), FALSE)
        base == AddN(Num(FALSE, FromInt(100)), Num(scaled # ZeroM, scaled))
    IN AddTimes(AddTimes(base, Num(FALSE, FromInt(10)), bonuses),
                Num(TRUE, FromInt(20)), penalties)

Score(video, targetDurationMs, trackName, artistName) ==
    LET title == ToLowerCase(video.title)
    IN ScoreOf(Abs(parseISO8601Duration(video.duration) - targetDurationMs),
               CountIncluded(title, SearchTerms(trackName, artistName)),
               CountIncluded(title, BadTerms))

\* the duration filter with the boundary left out
InToleranceStrict(video, targetDurationMs) ==
    Abs(parseISO8601Duration(video.duration) - targetDurationMs) < DURATION_TOLERANCE_MS

InTolerance(video, targetDurationMs) ==
    Abs(parseISO8601Duration(video.duration) - targetDurationMs) <= DURATION_TOLERANCE_MS

\* a || b on optional strings
OrElse(a, b) == IF a \notin {NullStr, ""} THEN a ELSE b

MatchOf(video) ==
    [videoId |-> video.id,
     title |-> video.title,
     duration |-> parseISO8601Duration(video.duration),
     thumbnailUrl |-> OrElse(video.thumbMedium, video.thumbDefault),
     channelTitle |-> video.channelTitle]

RECURSIVE BestMatchFrom(_, _, _, _, _, _)
BestMatchFrom(videos, k, best, targetDurationMs, trackName, artistName) ==
    IF k > Len(videos) THEN best.bestMatch
    ELSE LET video == videos[k]
             score == Score(video, targetDurationMs, trackName, artistName)
             next == IF InTolerance(video, targetDurationMs)
                        /\ GreaterN(score, best.bestScore)
                     THEN [bestMatch |-> MatchOf(video), bestScore |-> score]
                     ELSE best
         IN BestMatchFrom(videos, k + 1, next, targetDurationMs, trackName, artistName)

\* findBestMatch with a bestScore that starts below every score
findBestMatchNoFloor(videos, targetDurationMs, trackName, artistName) ==
    BestMatchFrom(videos, 1, [bestMatch |-> NULL, bestScore |-> Num(TRUE, FromInt(200))],
                  targetDurationMs, trackName, artistName)

findBestMatch(videos, targetDurationMs, trackName, artistName) ==
    BestMatchFrom(videos, 1, [bestMatch |-> NULL, bestScore |-> Num(FALSE, ZeroM)],
                  targetDurationMs, trackName, artistName)

\* -------------------------------------------------- findBestMatchInvidious
\* videoDurationMs without the factor of 1000
DurationInvidiousSeconds(video) == video.lengthSeconds

\* const videoDurationMs = video.lengthSeconds * 1000
DurationInvidious(video) == video.lengthSeconds * 1000

ScoreInvidious(video, targetDurationMs, trackName, artistName) ==
    LET title == ToLowerCase(video.title)
    IN ScoreOf(Abs(DurationInvidious(video) - targetDurationMs),
               CountIncluded(title, SearchTerms(trackName, artistName)),
               CountIncluded(title, BadTerms))

InToleranceInvidious(video, targetDurationMs) ==
    Abs(DurationInvidious(video) - targetDurationMs) <= DURATION_TOLERANCE_MS

MatchOfInvidious(video) ==
    LET sThumbHost == <<"h", "t", "t", "p", "s", ":", "/", "/", "i", ".", "y", "t", "i", "m",
                        "g", ".", "c", "o", "m", "/", "v", "i", "/">>
        sThumbFile == <<"/", "m", "q", "d", "e", "f", "a", "u", "l", "t", ".", "j", "p", "g">>
    IN
    [videoId |-> video.videoId,
     title |-> video.title,
     duration |-> DurationInvidious(video),
     thumbnailUrl |-> sThumbHost \o <<video.videoId>> \o sThumbFile,
     channelTitle |-> video.author]

RECURSIVE BestMatchInvidiousFrom(_, _, _, _, _, _)
BestMatchInvidiousFrom(videos, k, best, targetDurationMs, trackName, artistName) ==
    IF k > Len(videos) THEN best.bestMatch
    ELSE LET video == videos[k]
             score == ScoreInvidious(video, targetDurationMs, trackName, artistName)
             next == IF InToleranceInvidious(video, targetDurationMs)
                        /\ GreaterN(score, best.bestScore)
                     THEN [bestMatch |-> MatchOfInvidious(video), bestScore |-> score]
                     ELSE best
         IN BestMatchInvidiousFrom(videos, k + 1, next, targetDurationMs, trackName,
                                   artistName)

findBestMatchInvidious(videos, targetDurationMs, trackName, artistName) ==
    BestMatchInvidiousFrom(videos, 1, [bestMatch |-> NULL, bestScore |-> Num(FALSE, ZeroM)],
                           targetDurationMs, trackName, artistName)

\* the entry a mirror lists for the video the primary provider lists as video:
\* the same id, title and channel, the length in whole seconds
MirrorOf(video) ==
    [videoId |-> video.id,
     title |-> video.title,
     lengthSeconds |-> parseISO8601Duration(video.duration) \div 1000,
     author |-> video.channelTitle]

\* ------------------------------------------------- durable tier (youtube_cache)
\* PostgreSQL LIKE on lowercased text: % (and PostgREST's alias *) is any run of
\* characters, _ is any one character, a backslash quotes the next character.
RECURSIVE LikeMatch(_, _)
LikeMatch(v, pat) ==
    IF pat = <<>> THEN v = <<>>
    ELSE IF Head(pat) \in {"%", "*"}
         THEN LikeMatch(v, Tail(pat)) \/ (v # <<>> /\ LikeMatch(Tail(v), pat))
    ELSE IF Head(pat) = "_"
         THEN v # <<>> /\ LikeMatch(Tail(v), Tail(pat))
    ELSE IF Head(pat) = "\\" /\ Len(pat) >= 2
         THEN v # <<>> /\ Head(v) = pat[2] /\ LikeMatch(Tail(v), Tail(Tail(pat)))
    ELSE v # <<>> /\ Head(v) = Head(pat) /\ LikeMatch(Tail(v), Tail(pat))

\* .like(column, pattern): the case-sensitive match
LikeCaseSensitive(value, pattern) == LikeMatch(value, pattern)

\* .ilike(column, pattern)
ILike(value, pattern) == LikeMatch(ToLowerCase(value), ToLowerCase(pattern))

\* the rows the query of checkDatabaseCache selects from (before .limit(1))
CacheRowsFor(rows, trackName, artistName) ==
    {k \in 1..Len(rows) :
        ILike(rows[k].artist_name, artistName) /\ ILike(rows[k].track_name, trackName)}

\* the object built with data.videoId, a column the row does not have
ResultOfRowNoId(data) ==
    [videoId |-> NullStr,
     title |-> data.video_title,
     duration |-> data.video_duration,
     thumbnailUrl |-> data.thumbnail_url,
     channelTitle |-> data.channel_title]

\* the object checkDatabaseCache builds from a row
ResultOfRow(data) ==
    [videoId |-> data.video_id,
     title |-> data.video_title,
     duration |-> data.video_duration,
     thumbnailUrl |-> data.thumbnail_url,
     channelTitle |-> data.channel_title]

\* a row with the track name in both name columns
RowOfNameTwice(trackName, artistName, durationMs, result) ==
    [track_name |-> trackName,
     artist_name |-> trackName,
     duration_ms |-> durationMs,
     video_id |-> result.videoId,
     video_title |-> result.title,
     video_duration |-> result.duration,
     thumbnail_url |-> result.thumbnailUrl,
     channel_title |-> result.channelTitle]

\* a row with the two name columns exchanged
RowOfSwapped(trackName, artistName, durationMs, result) ==
    [track_name |-> artistName,
     artist_name |-> trackName,
     duration_ms |-> durationMs,
     video_id |-> result.videoId,
     video_title |-> result.title,
     video_duration |-> result.duration,
     thumbnail_url |-> result.thumbnailUrl,
     channel_title |-> result.channelTitle]

\* the row saveToDatabaseCache inserts
RowOf(trackName, artistName, durationMs, result) ==
    [track_name |-> trackName,
     artist_name |-> artistName,
     duration_ms |-> durationMs,
     video_id |-> result.videoId,
     video_title |-> result.title,
     video_duration |-> result.duration,
     thumbnail_url |-> result.thumbnailUrl,
     channel_title |-> result.channelTitle]

\* The table's uniqueness rule is not part of the sources; by the specification a
\* second insert for the same normalized (artist, name) is a conflict and a no-op.
DbConflict(rows, row) ==
    \E k \in 1..Len(rows) :
        CacheKey(rows[k].track_name, rows[k].artist_name)
            = CacheKey(row.track_name, row.artist_name)

DbInsert(rows, row) == IF DbConflict(rows, row) THEN rows ELSE Append(rows, row)

\* ------------------------------------------------------------ inputs and outcomes
trackA == [name |-> <<"S", "o">>, artist |-> <<"A", "b">>,
           duration_ms |-> 200000, albumArt |-> "artA"]
\* trackA in another letter case
trackA2 == [name |-> <<"s", "O">>, artist |-> <<"a", "B">>,
            duration_ms |-> 200000, albumArt |-> "artA2"]
trackC == [name |-> <<"N", "o">>, artist |-> <<"A", "b">>,
           duration_ms |-> 100000, albumArt |-> NullStr]
Tracks == {trackA, trackA2, trackC}

\* "Ab - So (Official Audio)", 3:20
videoA == [id |-> "v1",
           title |-> <<"A", "b", " ", "-", " ", "S", "o", " ", "(", "O", "f", "f", "i",
                       "c", "i", "a", "l", " ", "A", "u", "d", "i", "o", ")">>,
           duration |-> <<"P", "T", "3", "M", "2", "0", "S">>,
           thumbMedium |-> "m1", thumbDefault |-> "d1", channelTitle |-> "chA"]
\* "So (Live)", 3:25
videoB == [id |-> "v2",
           title |-> <<"S", "o", " ", "(", "L", "i", "v", "e", ")">>,
           duration |-> <<"P", "T", "3", "M", "2", "5", "S">>,
           thumbMedium |-> NullStr, thumbDefault |-> "d2", channelTitle |-> "chB"]
\* "No", 1:40
videoC == [id |-> "v3",
           title |-> <<"N", "o">>,
           duration |-> <<"P", "T", "1", "M", "4", "0", "S">>,
           thumbMedium |-> NullStr, thumbDefault |-> NullStr, channelTitle |-> "chC"]

\* the item lists a successful detail fetch can carry
VideoLists == {<<videoB, videoA>>, <<videoC>>}

\* the durable tier is shared: other sessions may have filled it before
seedRow == RowOf(trackA.name, trackA.artist, trackA.duration_ms, MatchOf(videoB))
DbSeeds == {<<>>, <<seedRow>>}

\* a track whose name has a character that is a wildcard in a LIKE pattern (%, and
\* * which PostgREST takes for %), as an earlier session looked it up, and as the
\* caller passes it in another letter case
trackW == [name |-> <<"S", "%">>, artist |-> <<"A", "b">>,
           duration_ms |-> 200000, albumArt |-> "artW"]
trackW2 == [name |-> <<"s", "%">>, artist |-> <<"a", "B">>,
            duration_ms |-> 200000, albumArt |-> "artW2"]
LookupTracks == {trackA, trackW2}
wildRow == RowOf(trackW.name, trackW.artist, trackW.duration_ms, MatchOf(videoA))
\* wildRow is older than seedRow: with seedRow in the table a lookup of trackW hits
LookupSeeds == {<<>>, <<seedRow>>, <<wildRow, seedRow>>}

Procs == {"p1", "p2"}
Svcs == {"s1", "s2"}

SearchOutcomes == {"quotaExceeded", "httpError", "throws", "empty", "items"}
DetailsOutcomes == {"quotaExceeded", "httpError", "throws", "ok"}
DbOutcomes == {"ok", "error", "throws"}

\* ------------------------------------------------------------------ state
VARIABLES
    apiKeys,          \* this.apiKeys: the configured keys, in slot order
    currentKeyIndex,  \* this.currentKeyIndex of each service instance (0-based)
    cache,            \* this.cache of each service instance: cache key -> match
    db,               \* rows of the shared youtube_cache table
    svc,              \* the service instance each process calls
    pc,               \* where each process is suspended
    tracks,           \* searchTracks: its argument, as far as the loop has read it
    total,            \* searchTracks: tracks.length
    onProgress,       \* searchTracks: whether a progress callback was passed
    i,                \* searchTracks: loop index (0-based)
    results,          \* searchTracks: results
    args,             \* searchTrack: trackName, artistName, durationMs
    attempts,         \* searchTrack: attempts
    maxAttempts,      \* searchTrack: maxAttempts
    apiKey,           \* searchWithYouTube: apiKey
    result,           \* searchTrack: result, while it is being saved
    ret,              \* the value searchTrack returns
    log,              \* history: calls completed by the resolution in progress
    cursor0,          \* history: currentKeyIndex when the resolution started
    progress,         \* history: the onProgress calls of the batch
    retLog,           \* history: per resolved query, its arguments, outcome, and whether a failure occurred
    delays,           \* history: the delays of the batch that have elapsed
    videos,           \* findBestMatch: videos, the candidates it is called with
    bestMatch,        \* findBestMatch: the value it returned
    bestMatchInvidious, \* findBestMatchInvidious: the value it returned
    duration,         \* parseISO8601Duration: duration
    videoDurationMs,  \* parseISO8601Duration: the value it returned
    instance,         \* searchWithInvidious: position in INVIDIOUS_INSTANCES (0-based)
    currentInvidiousInstance,  \* this.currentInvidiousInstance of each service instance
    cleared,          \* history: the keys clearCache dropped before the resolution p is in
    view_count,       \* mixtapes.view_count of the one mixtape row
    current,          \* incrementViewCount: current.view_count as read by each viewer
    completed,        \* history: the incrementViewCount calls that ended without an error
    calls,            \* history: the incrementViewCount calls made
    playlistData,     \* MixTape state: the tracks of the playlist; <<>> for null
    currentTrackIndex, \* MixTape state
    playerIndex,      \* the currentTrackIndex that the handlers of the YT.Player
                      \* in playerRef closed over; -1 while there is no player
    moved             \* history: the last handleNext call, or NULL

service == <<apiKeys, currentKeyIndex, cache, db, svc>>
batch == <<tracks, total, onProgress, i, results>>
frame == <<args, attempts, maxAttempts, apiKey, result, ret>>
history == <<log, cursor0, progress, retLog, delays>>
scoring == <<videos, bestMatch, bestMatchInvidious, duration, videoDurationMs>>
fallback == <<instance, currentInvidiousInstance>>
views == <<view_count, current, completed, calls>>
player == <<playlistData, currentTrackIndex, playerIndex, moved>>
page == <<views, player>>
vars == <<apiKeys, currentKeyIndex, cache, db, svc, pc, tracks, total, onProgress, i, results,
          args, attempts, maxAttempts, apiKey, result, ret, log, cursor0, progress, retLog,
          delays, videos, bestMatch, bestMatchInvidious, duration, videoDurationMs, instance,
          currentInvidiousInstance, cleared, view_count, current, completed, calls,
          playlistData, currentTrackIndex, playerIndex, moved>>

NullText == <<NullStr>>
NoArgs == [trackName |-> <<>>, artistName |-> <<>>, durationMs |-> 0]
EmptyMap == [k \in {} |-> NULL]
\* a set that is lost
MapSetLost(m, k, v) == m

MapSet(m, k, v) == [x \in (DOMAIN m) \cup {k} |-> IF x = k THEN v ELSE m[x]]

\* a completed call: the operation, the API key it used (NullStr when it uses none),
\* its answer, and for provider calls what searchWithYouTube threw on it
Event(op, key, out, thrown) == [op |-> op, key |-> key, out |-> out, thrown |-> thrown]

\* loadApiKeys: n numbered slots are set
LoadApiKeys(n) == [k \in 1..n |-> ToString(k)]

\* no searchTracks call is in progress
\* no call is in progress, no scorer and no parser has been called, no mirror has
\* been asked; the constructor does not set currentInvidiousInstance
InitProcs ==
    /\ tracks = [p \in Procs |-> <<>>]
    /\ total = [p \in Procs |-> 0]
    /\ onProgress = [p \in Procs |-> FALSE]
    /\ i = [p \in Procs |-> 0]
    /\ results = [p \in Procs |-> <<>>]
    /\ args = [p \in Procs |-> NoArgs]
    /\ attempts = [p \in Procs |-> 0]
    /\ maxAttempts = [p \in Procs |-> 0]
    /\ apiKey = [p \in Procs |-> NullStr]
    /\ result = [p \in Procs |-> NULL]
    /\ ret = [p \in Procs |-> NULL]
    /\ log = [p \in Procs |-> <<>>]
    /\ cursor0 = [p \in Procs |-> 0]
    /\ progress = [p \in Procs |-> <<>>]
    /\ retLog = [p \in Procs |-> <<>>]
    /\ delays = [p \in Procs |-> <<>>]
    /\ videos = [p \in Procs |-> <<>>]
    /\ bestMatch = [p \in Procs |-> NULL]
    /\ bestMatchInvidious = [p \in Procs |-> NULL]
    /\ duration = [p \in Procs |-> <<>>]
    /\ videoDurationMs = [p \in Procs |-> 0]
    /\ instance = [p \in Procs |-> 0]
    /\ currentInvidiousInstance = [s \in Svcs |-> NullStr]
    /\ cleared = [p \in Procs |-> {}]
    /\ view_count = 0
    /\ current = [p \in Procs |-> 0]
    /\ completed = 0
    /\ calls = 0
    /\ playlistData = <<>>
    /\ currentTrackIndex = 0
    /\ playerIndex = -1
    /\ moved = NULL

InitCommon ==
    /\ \E n \in 0..MaxKeys : apiKeys = LoadApiKeys(n)
    /\ currentKeyIndex = [s \in Svcs |-> 0]
    /\ cache = [s \in Svcs |-> EmptyMap]
    /\ db \in DbSeeds
    /\ InitProcs

\* one browser session, one batch at a time
Init ==
    /\ InitCommon
    /\ svc = [p \in Procs |-> "s1"]
    /\ pc = [p \in Procs |-> IF p = "p1" THEN "idle" ELSE "off"]

\* ------------------------------------------------------------- key pool
getCurrentApiKey(keys, idx) == IF Len(keys) = 0 THEN NullStr ELSE keys[idx + 1]

\* rotateApiKey reporting a rotation it does not make
rotateApiKeyStuck(keys, idx) ==
    IF Len(keys) <= 1
    THEN [ok |-> FALSE, index |-> idx]
    ELSE [ok |-> TRUE, index |-> idx]

\* rotateApiKey without the wrap-around
rotateApiKeyNoWrap(keys, idx) ==
    IF Len(keys) <= 1
    THEN [ok |-> FALSE, index |-> idx]
    ELSE [ok |-> TRUE, index |-> idx + 1]

\* rotateApiKey without its guard for a pool of one key
rotateApiKeyUnguarded(keys, idx) ==
    IF Len(keys) = 0
    THEN [ok |-> FALSE, index |-> idx]
    ELSE [ok |-> TRUE, index |-> (idx + 1) % Len(keys)]

rotateApiKey(keys, idx) ==
    IF Len(keys) <= 1
    THEN [ok |-> FALSE, index |-> idx]
    ELSE [ok |-> TRUE, index |-> (idx + 1) % Len(keys)]

\* --------------------------------------------------- searchWithYouTube errors
\* every non-ok response taken for a quota error
ThrownByAllQuota(op, out) ==
    IF out \in {"quotaExceeded", "httpError"} THEN "quotaExceeded"
    ELSE IF out = "throws" THEN "error"
    ELSE "none"

\* the search call taking every error status for a quota error
ThrownByStatusAlone(op, out) ==
    IF op = "search"
    THEN IF out \in {"quotaExceeded", "httpError"} THEN "quotaExceeded"
         ELSE IF out = "throws" THEN "error"
         ELSE "none"
    ELSE IF out \in {"quotaExceeded", "httpError", "throws"} THEN "error"
         ELSE "none"

\* What a call of searchWithYouTube throws for a provider answer:
\* "quotaExceeded" (error.quotaExceeded set), "error" (any other Error), "none".
\* Only the search call looks for the quotaExceeded reason in the error body.
ThrownBy(op, out) ==
    IF op = "search"
    THEN IF out = "quotaExceeded" THEN "quotaExceeded"
         ELSE IF out \in {"httpError", "throws"} THEN "error"
         ELSE "none"
    ELSE IF out \in {"quotaExceeded", "httpError", "throws"} THEN "error"
         ELSE "none"

\* the provider's answer as the history records it: an HTTP error status and a
\* failed or malformed exchange are both "error"
Answer(out) == IF out \in {"httpError", "throws"} THEN "error" ELSE out

\* a loop that allows one attempt too many
WhileCondInclusive(n, max) == n <= max

\* the loop condition of searchTrack
WhileCond(n, max) == n < max

\* ---------------------------------------------------------- searchTracks
\* results.unshift(item)
Unshift(list, item) == <<item>> \o list

\* the loop going on without the push
PushSkipped(list, item) == list

\* results.push(item)
Push(list, item) == Append(list, item)

TextOrNull(t) == IF t \notin {NullText, <<>>} THEN t ELSE NullText

Annotate(track, match) ==
    [name |-> track.name,
     artist |-> track.artist,
     duration_ms |-> track.duration_ms,
     albumArt |-> track.albumArt,
     youtubeId |-> IF match = NULL THEN NullStr ELSE OrElse(match.videoId, NullStr),
     youtubeTitle |-> IF match = NULL THEN NullText ELSE TextOrNull(match.title),
     youtubeThumbnail |-> IF match = NULL THEN NullStr ELSE OrElse(match.thumbnailUrl, NullStr),
     matched |-> match # NULL]

\* a delay after every track, the last one too
MoreToComeInclusive(idx, n) == idx < n

\* the test i < tracks.length - 1 that guards the delay
MoreToCome(idx, n) == idx < n - 1

\* sleep(ms): a timer of ms milliseconds; the delay it makes
sleep(ms) == ms

\* a callback given the loop index itself
ProgressArgsFromZero(idx, n) == <<idx, n>>

\* the arguments of onProgress(i + 1, tracks.length)
ProgressArgs(idx, n) == <<idx + 1, n>>

\* searchTracks is called with a list of n tracks, with or without a progress
\* callback. The list is fixed by the call; the model draws each element when the
\* loop reads it, so that states do not differ in tracks not yet looked at.
SearchTracksStartWith(p, sizes, callbacks) ==
    /\ pc[p] = "idle"
    /\ \E n \in sizes, cb \in callbacks :
        /\ total' = [total EXCEPT ![p] = n]
        /\ onProgress' = [onProgress EXCEPT ![p] = cb]
        /\ pc' = [pc EXCEPT ![p] = IF n = 0 THEN "done" ELSE "loop"]
    /\ UNCHANGED <<service, tracks, i, results, frame, history>>
    /\ UNCHANGED <<scoring, fallback, cleared, page>>

\* one loop iteration up to the first await of searchTrack: the progress callback,
\* then searchTrack's cache key and its lookup in the in-memory cache
SearchTracksIterOn(p, from) ==
    /\ pc[p] = "loop"
    /\ \E track \in from :
       LET s == svc[p]
           cacheKey == CacheKey(track.name, track.artist)
           hit == cacheKey \in DOMAIN cache[s]
       IN /\ tracks' = [tracks EXCEPT ![p] = Append(@, track)]
          /\ progress' = [progress EXCEPT ![p] =
                 IF onProgress[p] THEN Append(@, ProgressArgs(i[p], total[p])) ELSE @]
          /\ args' = [args EXCEPT ![p] = [trackName |-> track.name,
                                          artistName |-> track.artist,
                                          durationMs |-> track.duration_ms]]
          /\ cursor0' = [cursor0 EXCEPT ![p] = currentKeyIndex[s]]
          /\ log' = [log EXCEPT ![p] =
                 <<Event("memory", NullStr, IF hit THEN "hit" ELSE "miss", "none")>>]
          /\ ret' = [ret EXCEPT ![p] = IF hit THEN cache[s][cacheKey] ELSE NULL]
          /\ pc' = [pc EXCEPT ![p] = IF hit THEN "st_return" ELSE "db_read"]
    /\ UNCHANGED <<service, total, onProgress, i, results, attempts, maxAttempts,
                   apiKey, result, retLog, delays>>
    /\ UNCHANGED <<scoring, fallback, cleared, page>>

\* a lookup whose failure leaves checkDatabaseCache as an exception
LookupEscapesUncaught(out) == out = "throws"

\* Does a failed lookup leave checkDatabaseCache as an exception?  Never: the
\* whole body is in a try block whose catch returns null.  searchTrack calls it
\* outside its own try block, so an exception would reject searchTrack and, at
\* the await in searchTracks, the batch.
LookupEscapes(out) == FALSE

\* a failure happened in the resolution with this log: a provider call threw, a
\* database call failed, or no key was left to rotate to
HadFailure(l) ==
    \E k \in 1..Len(l) :
        \/ l[k].thrown # "none"
        \/ l[k].out = "failed"
        \/ l[k].op = "rotate" /\ l[k].out = "false"

\* a call with any list of up to MaxBatch tracks, with or without a callback
SearchTracksStart(p) == SearchTracksStartWith(p, 0..MaxBatch, BOOLEAN)

\* a loop iteration of a caller whose tracks have plain names
SearchTracksIter(p) == SearchTracksIterOn(p, Tracks)

\* what checkDatabaseCache can return for an answer of the store
DbLookupResults(out, rows, trackName, artistName) ==
    IF out # "ok" \/ CacheRowsFor(rows, trackName, artistName) = {}
    THEN {NULL}
    ELSE {ResultOfRow(rows[k]) : k \in CacheRowsFor(rows, trackName, artistName)}

\* checkDatabaseCache answers; on a hit searchTrack returns it, on a miss it goes
\* on to the key check and the first searchWithYouTube call
CheckDatabaseCacheDone(p) ==
    /\ pc[p] = "db_read"
    /\ \E out \in DbOutcomes :
       \E dbCached \in DbLookupResults(out, db, args[p].trackName, args[p].artistName) :
        LET s == svc[p]
            cacheKey == CacheKey(args[p].trackName, args[p].artistName)
            key == getCurrentApiKey(apiKeys, currentKeyIndex[s])
            ev == Event("dbRead", NullStr,
                        IF out # "ok" THEN "failed"
                        ELSE IF dbCached = NULL THEN "miss" ELSE "hit", "none")
        IN /\ log' = [log EXCEPT ![p] = Append(@, ev)]
           /\ IF LookupEscapes(out)
              THEN /\ pc' = [pc EXCEPT ![p] = "rejected"]
                   /\ UNCHANGED <<cache, ret, attempts, maxAttempts, apiKey>>
              ELSE IF dbCached # NULL
              THEN /\ cache' = [cache EXCEPT ![s] = MapSet(@, cacheKey, dbCached)]
                   /\ ret' = [ret EXCEPT ![p] = dbCached]
                   /\ pc' = [pc EXCEPT ![p] = "st_return"]
                   /\ UNCHANGED <<attempts, maxAttempts, apiKey>>
              ELSE IF key = NullStr
              THEN /\ ret' = [ret EXCEPT ![p] = NULL]
                   /\ pc' = [pc EXCEPT ![p] = "st_return"]
                   /\ UNCHANGED <<cache, attempts, maxAttempts, apiKey>>
              ELSE /\ attempts' = [attempts EXCEPT ![p] = 0]
                   /\ maxAttempts' = [maxAttempts EXCEPT ![p] = Len(apiKeys)]
                   /\ IF WhileCond(0, Len(apiKeys))
                      THEN /\ apiKey' = [apiKey EXCEPT ![p] = key]
                           /\ pc' = [pc EXCEPT ![p] = "yt_search"]
                           /\ UNCHANGED ret
                      ELSE /\ ret' = [ret EXCEPT ![p] = NULL]
                           /\ pc' = [pc EXCEPT ![p] = "st_return"]
                           /\ UNCHANGED apiKey
                   /\ UNCHANGED cache
    /\ UNCHANGED <<apiKeys, currentKeyIndex, db, svc, batch, args, result,
                   cursor0, progress, retLog, delays>>
    /\ UNCHANGED <<scoring, fallback, cleared, page>>

\* searchTrack's catch block, for what searchWithYouTube threw; newlog is the log
\* with the failed call added
Catch(p, newlog, thrown) ==
    LET s == svc[p]
        rot == rotateApiKey(apiKeys, currentKeyIndex[s])
    IN IF thrown = "quotaExceeded" /\ rot.ok
       THEN /\ currentKeyIndex' = [currentKeyIndex EXCEPT ![s] = rot.index]
            /\ attempts' = [attempts EXCEPT ![p] = @ + 1]
            /\ log' = [log EXCEPT ![p] = Append(newlog, Event("rotate", NullStr, "true", "none"))]
            /\ IF WhileCond(attempts[p] + 1, maxAttempts[p])
               THEN /\ apiKey' = [apiKey EXCEPT ![p] = getCurrentApiKey(apiKeys, rot.index)]
                    /\ pc' = [pc EXCEPT ![p] = "yt_search"]
                    /\ UNCHANGED ret
               ELSE /\ ret' = [ret EXCEPT ![p] = NULL]
                    /\ pc' = [pc EXCEPT ![p] = "st_return"]
                    /\ UNCHANGED apiKey
       ELSE /\ log' = [log EXCEPT ![p] =
                   IF thrown = "quotaExceeded"
                   THEN Append(newlog, Event("rotate", NullStr, "false", "none"))
                   ELSE newlog]
            /\ ret' = [ret EXCEPT ![p] = NULL]
            /\ pc' = [pc EXCEPT ![p] = "st_return"]
            /\ UNCHANGED <<currentKeyIndex, attempts, apiKey>>

\* the search call of searchWithYouTube answers
SearchResponse(p) ==
    /\ pc[p] = "yt_search"
    /\ \E out \in SearchOutcomes :
        LET thrown == ThrownBy("search", out)
            newlog == Append(log[p], Event("search", apiKey[p], Answer(out), thrown))
        IN IF thrown # "none"
           THEN Catch(p, newlog, thrown)
           ELSE /\ log' = [log EXCEPT ![p] = newlog]
                /\ IF out = "items"
                   THEN /\ pc' = [pc EXCEPT ![p] = "yt_details"]
                        /\ UNCHANGED ret
                   ELSE /\ ret' = [ret EXCEPT ![p] = NULL]
                        /\ pc' = [pc EXCEPT ![p] = "st_return"]
                /\ UNCHANGED <<currentKeyIndex, attempts, apiKey>>
    /\ UNCHANGED <<apiKeys, cache, db, svc, batch, args, maxAttempts, result,
                   cursor0, progress, retLog, delays>>
    /\ UNCHANGED <<scoring, fallback, cleared, page>>

\* this.cache.set(cacheKey, result) whatever the result
CacheResultAlways(m, cacheKey, found) == MapSet(m, cacheKey, found)

\* if (result) this.cache.set(cacheKey, result)
CacheResult(m, cacheKey, found) == IF found # NULL THEN MapSet(m, cacheKey, found) ELSE m

\* a detail fetch that asks the service for its key again
DetailsKeyAtCursor(captured, atCursor) == atCursor

\* the key of the detail fetch: the constant apiKey of searchWithYouTube, read
\* before the search call
DetailsKey(captured, atCursor) == captured

\* the detail fetch of searchWithYouTube answers; a match is put in the in-memory
\* cache and its save to the database cache is started
DetailsResponse(p) ==
    /\ pc[p] = "yt_details"
    /\ \E out \in DetailsOutcomes :
       \E items \in (IF out = "ok" THEN VideoLists \cup {<<>>} ELSE {<<>>}) :
        LET s == svc[p]
            thrown == ThrownBy("details", out)
            newlog == Append(log[p], Event("details",
                        DetailsKey(apiKey[p], getCurrentApiKey(apiKeys, currentKeyIndex[s])),
                        Answer(out), thrown))
            found == findBestMatch(items, args[p].durationMs,
                                   args[p].trackName, args[p].artistName)
            cacheKey == CacheKey(args[p].trackName, args[p].artistName)
        IN IF thrown # "none"
           THEN /\ Catch(p, newlog, thrown)
                /\ UNCHANGED <<cache, result>>
           ELSE /\ log' = [log EXCEPT ![p] = newlog]
                /\ cache' = [cache EXCEPT ![s] = CacheResult(@, cacheKey, found)]
                /\ IF found # NULL
                   THEN /\ result' = [result EXCEPT ![p] = found]
                        /\ pc' = [pc EXCEPT ![p] = "db_write"]
                        /\ UNCHANGED ret
                   ELSE /\ ret' = [ret EXCEPT ![p] = NULL]
                        /\ pc' = [pc EXCEPT ![p] = "st_return"]
                        /\ UNCHANGED result
                /\ UNCHANGED <<currentKeyIndex, attempts, apiKey>>
    /\ UNCHANGED <<apiKeys, db, svc, batch, args, maxAttempts, cursor0, progress, retLog, delays>>
    /\ UNCHANGED <<scoring, fallback, cleared, page>>

\* a save without its catch block
SaveEscapesOnThrow(out, conflict) == out = "throws"

\* a save that lets the duplicate-key error of the insert out
SaveEscapesOnConflict(out, conflict) == out = "ok" /\ conflict

\* a save that lets every failure of the insert out
SaveEscapesOnFailure(out, conflict) == out # "ok" \/ conflict

\* Does a failed insert leave saveToDatabaseCache as an exception?  Never: the
\* result object of the insert is not looked at and the catch block swallows what
\* the client throws.  The call is inside searchTrack's try block: an exception
\* would make searchTrack log it and return null.
SaveEscapes(out, conflict) == FALSE

\* saveToDatabaseCache ends (its errors are swallowed); searchTrack returns result
SaveToDatabaseCacheDone(p) ==
    /\ pc[p] = "db_write"
    /\ \E out \in DbOutcomes :
        LET row == RowOf(args[p].trackName, args[p].artistName, args[p].durationMs,
                         result[p])
            ev == Event("dbWrite", NullStr,
                        IF out # "ok" THEN "failed"
                        ELSE IF DbConflict(db, row) THEN "conflict" ELSE "ok", "none")
            thrown == IF SaveEscapes(out, DbConflict(db, row)) THEN "error" ELSE "none"
        IN /\ db' = IF out = "ok" THEN DbInsert(db, row) ELSE db
           /\ log' = [log EXCEPT ![p] = Append(@, [ev EXCEPT !.thrown = thrown])]
           /\ ret' = [ret EXCEPT ![p] = IF thrown = "none" THEN result[p] ELSE NULL]
    /\ pc' = [pc EXCEPT ![p] = "st_return"]
    /\ UNCHANGED <<apiKeys, currentKeyIndex, cache, svc, batch, args, attempts,
                   maxAttempts, apiKey, result, cursor0, progress, retLog, delays>>
    /\ UNCHANGED <<scoring, fallback, cleared, page>>

\* searchTracks resumes with searchTrack's value, pushes the annotated track and
\* either starts the delay or, after the last track, leaves the loop; the frame of
\* the finished searchTrack call is gone
SearchTrackReturn(p) ==
    /\ pc[p] = "st_return"
    /\ results' = [results EXCEPT ![p] = Push(@, Annotate(tracks[p][i[p] + 1], ret[p]))]
    /\ retLog' = [retLog EXCEPT ![p] = Append(@, [args |-> args[p], ret |-> ret[p],
                                  failed |-> HadFailure(log[p])])]
    /\ IF MoreToCome(i[p], total[p])
       THEN /\ pc' = [pc EXCEPT ![p] = "sleep"]
            /\ UNCHANGED i
       ELSE /\ pc' = [pc EXCEPT ![p] = "done"]
            /\ i' = [i EXCEPT ![p] = @ + 1]
    /\ args' = [args EXCEPT ![p] = NoArgs]
    /\ attempts' = [attempts EXCEPT ![p] = 0]
    /\ maxAttempts' = [maxAttempts EXCEPT ![p] = 0]
    /\ apiKey' = [apiKey EXCEPT ![p] = NullStr]
    /\ result' = [result EXCEPT ![p] = NULL]
    /\ ret' = [ret EXCEPT ![p] = NULL]
    /\ log' = [log EXCEPT ![p] = <<>>]
    /\ cursor0' = [cursor0 EXCEPT ![p] = 0]
    /\ UNCHANGED <<service, tracks, total, onProgress, progress, delays>>
    /\ UNCHANGED <<scoring, fallback, cleared, page>>

\* the timer of sleep(100) fires; the loop increments i and tests it
SleepDone(p) ==
    /\ pc[p] = "sleep"
    /\ delays' = [delays EXCEPT ![p] = Append(@, sleep(SLEEP_MS))]
    /\ i' = [i EXCEPT ![p] = @ + 1]
    /\ pc' = [pc EXCEPT ![p] = IF i[p] + 1 < total[p] THEN "loop" ELSE "done"]
    /\ UNCHANGED <<service, tracks, total, onProgress, results, frame,
                   log, cursor0, progress, retLog>>
    /\ UNCHANGED <<scoring, fallback, cleared, page>>

\* searchTracks returns results to its caller; the service is ready for another batch
SearchTracksReturn(p) ==
    /\ pc[p] = "done"
    /\ pc' = [pc EXCEPT ![p] = "idle"]
    /\ tracks' = [tracks EXCEPT ![p] = <<>>]
    /\ total' = [total EXCEPT ![p] = 0]
    /\ onProgress' = [onProgress EXCEPT ![p] = FALSE]
    /\ i' = [i EXCEPT ![p] = 0]
    /\ results' = [results EXCEPT ![p] = <<>>]
    /\ progress' = [progress EXCEPT ![p] = <<>>]
    /\ retLog' = [retLog EXCEPT ![p] = <<>>]
    /\ delays' = [delays EXCEPT ![p] = <<>>]
    /\ UNCHANGED <<service, frame, log, cursor0>>
    /\ UNCHANGED <<scoring, fallback, cleared, page>>

Next ==
    \E p \in Procs :
        \/ SearchTracksStart(p)
        \/ SearchTracksIter(p)
        \/ CheckDatabaseCacheDone(p)
        \/ SearchResponse(p)
        \/ DetailsResponse(p)
        \/ SaveToDatabaseCacheDone(p)
        \/ SearchTrackReturn(p)
        \/ SleepDone(p)
        \/ SearchTracksReturn(p)

Spec == Init /\ [][Next]_vars

\* what the event loop does for a batch in progress: every awaited call (a fetch,
\* a database call, the timer of sleep) settles, and the continuation runs
Resume(p) ==
    \/ SearchTracksIter(p)
    \/ CheckDatabaseCacheDone(p)
    \/ SearchResponse(p)
    \/ DetailsResponse(p)
    \/ SaveToDatabaseCacheDone(p)
    \/ SearchTrackReturn(p)
    \/ SleepDone(p)

\* the batches under the assumption that every awaited call comes back
SpecLive == Spec /\ \A p \in Procs : WF_vars(Resume(p))

\* ------------------------------------------- names with pattern characters
InitLookup ==
    /\ \E n \in 0..MaxKeys : apiKeys = LoadApiKeys(n)
    /\ currentKeyIndex = [s \in Svcs |-> 0]
    /\ cache = [s \in Svcs |-> EmptyMap]
    /\ db \in LookupSeeds
    /\ InitProcs
    /\ svc = [p \in Procs |-> "s1"]
    /\ pc = [p \in Procs |-> IF p = "p1" THEN "idle" ELSE "off"]

\* a loop iteration of a caller whose playlist has such names
LookupIter(p) == SearchTracksIterOn(p, LookupTracks)

NextLookup ==
    \E p \in Procs :
        \/ SearchTracksStart(p)
        \/ LookupIter(p)
        \/ CheckDatabaseCacheDone(p)
        \/ SearchResponse(p)
        \/ DetailsResponse(p)
        \/ SaveToDatabaseCacheDone(p)
        \/ SearchTrackReturn(p)
        \/ SleepDone(p)
        \/ SearchTracksReturn(p)

SpecLookup == InitLookup /\ [][NextLookup]_vars

\* ------------------------------------------------- rotateApiKey on its own
\* contents the in-memory cache can have after earlier resolutions
CacheStates ==
    {EmptyMap,
     MapSet(EmptyMap, CacheKey(trackA.name, trackA.artist), MatchOf(videoA)),
     MapSet(EmptyMap, CacheKey(trackA.name, trackA.artist), MatchOf(videoB))}

\* two idle sessions, each with its own service instance, in any state of key
\* pool, cursor and caches that earlier resolutions can leave
InitRotate ==
    /\ \E n \in 0..MaxKeys :
           /\ apiKeys = LoadApiKeys(n)
           /\ currentKeyIndex \in [Svcs -> 0..(IF n = 0 THEN 0 ELSE n - 1)]
    /\ cache \in [Svcs -> CacheStates]
    /\ db \in DbSeeds
    /\ InitProcs
    /\ svc = [p \in Procs |-> IF p = "p1" THEN "s1" ELSE "s2"]
    /\ pc = [p \in Procs |-> "idle"]

\* a call of rotateApiKey; the log keeps what it returned
RotateApiKey(p) ==
    /\ pc[p] = "idle"
    /\ Len(log[p]) < MaxCalls
    /\ LET rot == rotateApiKey(apiKeys, currentKeyIndex[svc[p]])
       IN /\ currentKeyIndex' = [currentKeyIndex EXCEPT ![svc[p]] = rot.index]
          /\ log' = [log EXCEPT ![p] =
                 Append(@, Event("rotate", NullStr, IF rot.ok THEN "true" ELSE "false", "none"))]
    /\ UNCHANGED <<apiKeys, cache, db, svc, pc, batch, frame, cursor0, progress,
                   retLog, delays>>
    /\ UNCHANGED <<scoring, fallback, cleared, page>>

NextRotate == \E p \in Procs : RotateApiKey(p)

SpecRotate == InitRotate /\ [][NextRotate]_vars

\* ----------------------------------------------- the cache store on its own
StoredTracks == {trackA, trackA2}
StoredResults == {MatchOf(videoA), MatchOf(videoB)}

\* the two statements of searchTrack that store a match: this.cache.set and
\* saveToDatabaseCache, for any track and match; args and result keep what the
\* call was given, the log what became of the insert
StoreCall(p) ==
    /\ pc[p] = "idle"
    /\ Len(log[p]) < MaxCalls
    /\ \E track \in StoredTracks, found \in StoredResults, out \in DbOutcomes :
        LET s == svc[p]
            cacheKey == CacheKey(track.name, track.artist)
            row == RowOf(track.name, track.artist, track.duration_ms, found)
            conflict == DbConflict(db, row)
            thrown == IF SaveEscapes(out, conflict) THEN "error" ELSE "none"
            ev == Event("dbWrite", NullStr,
                        IF out # "ok" THEN "failed"
                        ELSE IF conflict THEN "conflict" ELSE "ok", thrown)
        IN /\ args' = [args EXCEPT ![p] = [trackName |-> track.name,
                                           artistName |-> track.artist,
                                           durationMs |-> track.duration_ms]]
           /\ result' = [result EXCEPT ![p] = found]
           /\ cache' = [cache EXCEPT ![s] = MapSet(@, cacheKey, found)]
           /\ db' = IF out = "ok" THEN DbInsert(db, row) ELSE db
           /\ log' = [log EXCEPT ![p] = Append(@, ev)]
    /\ UNCHANGED <<apiKeys, currentKeyIndex, svc, pc, batch, attempts, maxAttempts,
                   apiKey, ret, cursor0, progress, retLog, delays>>
    /\ UNCHANGED <<scoring, fallback, cleared, page>>

NextStore == \E p \in Procs : StoreCall(p)

SpecStore == InitRotate /\ [][NextStore]_vars

\* ------------------------------------------------------ two sessions at once
\* two browser sessions, each with its own service instance, the same keys and
\* the shared table, which has no row yet
InitSessions ==
    /\ \E n \in 0..MaxKeys : apiKeys = LoadApiKeys(n)
    /\ currentKeyIndex = [s \in Svcs |-> 0]
    /\ cache = [s \in Svcs |-> EmptyMap]
    /\ db = <<>>
    /\ InitProcs
    /\ svc = [p \in Procs |-> IF p = "p1" THEN "s1" ELSE "s2"]
    /\ pc = [p \in Procs |-> "idle"]

\* each session loads a playlist of one track, the same track in either letter case
SessionStart(p) == SearchTracksStartWith(p, {1}, {FALSE})
SessionIter(p) == SearchTracksIterOn(p, StoredTracks)

\* the steps of the two sessions interleave at every await; the state is looked at
\* until both searchTracks calls are about to return
NextSessions ==
    \E p \in Procs :
        \/ SessionStart(p)
        \/ SessionIter(p)
        \/ CheckDatabaseCacheDone(p)
        \/ SearchResponse(p)
        \/ DetailsResponse(p)
        \/ SaveToDatabaseCacheDone(p)
        \/ SearchTrackReturn(p)

SpecSessions == InitSessions /\ [][NextSessions]_vars

\* ------------------------------------------- two batches on the one service
\* the module exports one YouTubeService; two searchTracks calls on it, each for a
\* playlist of one track, are suspended at their awaits at the same time
InitShared ==
    /\ \E n \in 0..MaxKeys : apiKeys = LoadApiKeys(n)
    /\ currentKeyIndex = [s \in Svcs |-> 0]
    /\ cache = [s \in Svcs |-> EmptyMap]
    /\ db = <<>>
    /\ InitProcs
    /\ svc = [p \in Procs |-> "s1"]
    /\ pc = [p \in Procs |-> "idle"]

SharedIter(p) == SearchTracksIterOn(p, {trackA, trackC})

NextShared ==
    \E p \in Procs :
        \/ SessionStart(p)
        \/ SharedIter(p)
        \/ CheckDatabaseCacheDone(p)
        \/ SearchResponse(p)
        \/ DetailsResponse(p)
        \/ SaveToDatabaseCacheDone(p)
        \/ SearchTrackReturn(p)

SpecShared == InitShared /\ [][NextShared]_vars

\* ------------------------------------------------------------------ clearCache
\* a clear that keeps the entries
MapClearKept(m) == m

\* this.cache.clear()
MapClear(m) == EmptyMap

\* clearCache() on service s, called between two continuations of the batches;
\* cleared remembers, for the batches that are not inside a resolution, the keys
\* that were dropped
ClearCache(s) ==
    /\ cache' = [cache EXCEPT ![s] = MapClear(@)]
    /\ cleared' = [p \in Procs |->
           IF svc[p] = s /\ pc[p] \in {"idle", "loop", "sleep", "done"}
           THEN cleared[p] \cup DOMAIN cache[s]
           ELSE cleared[p]]
    /\ UNCHANGED <<apiKeys, currentKeyIndex, db, svc, pc, batch, frame, history,
                   scoring, fallback, page>>

\* playlists of one track are resolved one after the other, and clearCache is
\* called at any point in between
NextClear ==
    \/ \E p \in Procs :
           \/ SessionStart(p)
           \/ SearchTracksIter(p)
           \/ CheckDatabaseCacheDone(p)
           \/ SearchResponse(p)
           \/ DetailsResponse(p)
           \/ SaveToDatabaseCacheDone(p)
           \/ SearchTrackReturn(p)
           \/ SearchTracksReturn(p)
    \/ \E s \in Svcs : ClearCache(s)

SpecClear == Init /\ [][NextClear]_vars

\* ------------------------------------------------------- the shared-mixtape page
\* the page of a shared mixtape is open in the browsers of Procs; nothing is
\* loaded yet
InitPage ==
    /\ apiKeys = LoadApiKeys(0)
    /\ currentKeyIndex = [s \in Svcs |-> 0]
    /\ cache = [s \in Svcs |-> EmptyMap]
    /\ db = <<>>
    /\ InitProcs
    /\ svc = [p \in Procs |-> "s1"]
    /\ pc = [p \in Procs |-> "idle"]

\* what a request to the mixtapes table can answer
ViewOutcomes == {"ok", "error"}

\* loadSharedMixtape of viewer p calls incrementViewCount, which sends its select
IncrementViewCount(p) ==
    /\ pc[p] = "idle"
    /\ calls < MaxViews
    /\ calls' = calls + 1
    /\ pc' = [pc EXCEPT ![p] = "vc_select"]
    /\ UNCHANGED <<view_count, current, completed>>
    /\ UNCHANGED <<service, batch, frame, history, scoring, fallback, cleared, player>>

\* the select answers: with the row, the update is sent with the count that was
\* read plus one; without data the call returns
SelectDone(p) ==
    /\ pc[p] = "vc_select"
    /\ \E out \in ViewOutcomes :
          IF out = "ok"
          THEN /\ current' = [current EXCEPT ![p] = view_count]
               /\ pc' = [pc EXCEPT ![p] = "vc_update"]
          ELSE /\ pc' = [pc EXCEPT ![p] = "idle"]
               /\ UNCHANGED current
    /\ UNCHANGED <<view_count, completed, calls>>
    /\ UNCHANGED <<service, batch, frame, history, scoring, fallback, cleared, player>>

\* the update answers; an error is logged
UpdateDone(p) ==
    /\ pc[p] = "vc_update"
    /\ \E out \in ViewOutcomes :
          IF out = "ok"
          THEN /\ view_count' = current[p] + 1
               /\ completed' = completed + 1
          ELSE UNCHANGED <<view_count, completed>>
    /\ pc' = [pc EXCEPT ![p] = "idle"]
    /\ UNCHANGED <<current, calls>>
    /\ UNCHANGED <<service, batch, frame, history, scoring, fallback, cleared, player>>

NextViews == \E p \in Procs : IncrementViewCount(p) \/ SelectDone(p) \/ UpdateDone(p)

SpecViews == InitPage /\ [][NextViews]_vars

\* ------------------------------------------------------------ the player
\* the playlists of a mixtape: for each track its youtubeId, NullStr when the
\* track has none
Playlists == UNION {[1..n -> {"yt", NullStr}] : n \in 1..MaxTracks}

\* playlistData.tracks[idx]?.youtubeId is truthy
HasId(list, idx) == idx \in 0..(Len(list) - 1) /\ list[idx + 1] # NullStr

\* the while loop of handleNext
RECURSIVE SkipLoop(_, _, _)
SkipLoop(list, nextIndex, n) ==
    IF ~HasId(list, nextIndex) /\ n < Len(list)
    THEN SkipLoop(list, (nextIndex + 1) % Len(list), n + 1)
    ELSE [nextIndex |-> nextIndex, attempts |-> n]

\* handleNext as created in a render with this playlist and this currentTrackIndex
handleNext(list, index) == SkipLoop(list, (index + 1) % Len(list), 0)

\* initializePlayer, run by the effect after a render: a player is created when
\* there is none and the current track has a youtubeId, and its onStateChange and
\* onError call the handleNext of that render; a player that exists is only told
\* to load the video, its handlers stay
initializePlayer(list, index, existing) ==
    IF list = <<>> \/ ~HasId(list, index) THEN existing
    ELSE IF existing # -1 THEN existing
    ELSE index

\* handleNext is called: by the skip button, with the handleNext of the last
\* render, or by the player, with the one its handlers closed over
CallHandleNext(via, closedOver) ==
    LET r == handleNext(playlistData, closedOver)
    IN /\ currentTrackIndex' = r.nextIndex
       /\ playerIndex' = initializePlayer(playlistData, r.nextIndex, playerIndex)
       /\ moved' = [via |-> via, index |-> currentTrackIndex, nextIndex |-> r.nextIndex,
                    attempts |-> r.attempts]
       /\ UNCHANGED playlistData
       /\ UNCHANGED <<service, pc, batch, frame, history, scoring, fallback, cleared, views>>

\* loadSharedMixtape sets the playlist of the mixtape; the view becomes the player
LoadSharedMixtape ==
    /\ playlistData = <<>>
    /\ \E list \in Playlists :
          /\ playlistData' = list
          /\ playerIndex' = initializePlayer(list, currentTrackIndex, playerIndex)
    /\ UNCHANGED <<currentTrackIndex, moved>>
    /\ UNCHANGED <<service, pc, batch, frame, history, scoring, fallback, cleared, views>>

\* the skip button
HandleNext ==
    /\ playlistData # <<>>
    /\ CallHandleNext("button", currentTrackIndex)

\* onStateChange of the player with the state ENDED
OnStateChange ==
    /\ playerIndex # -1
    /\ CallHandleNext("ended", playerIndex)

\* onError of the player
OnError ==
    /\ playerIndex # -1
    /\ CallHandleNext("error", playerIndex)

\* a click on a track of the list: setCurrentTrackIndex(idx)
SelectTrack ==
    /\ playlistData # <<>>
    /\ \E idx \in 0..(Len(playlistData) - 1) :
          /\ idx # currentTrackIndex
          /\ currentTrackIndex' = idx
          /\ playerIndex' = initializePlayer(playlistData, idx, playerIndex)
    /\ moved' = NULL
    /\ UNCHANGED playlistData
    /\ UNCHANGED <<service, pc, batch, frame, history, scoring, fallback, cleared, views>>

NextPlayer == LoadSharedMixtape \/ HandleNext \/ OnStateChange \/ OnError \/ SelectTrack

SpecPlayer == InitPage /\ [][NextPlayer]_vars

\* --------------------------------------------------- the scorer on its own
\* the title and the duration of the items a detail fetch may carry.  Titles: no
\* term; four search terms; one search term and one bad term; two search terms and
\* one bad term; one search term and three bad terms; four bad terms
ScoreItems ==
    LET titleNo == <<"N", "o">>
        titleOfficial == videoA.title
        titleLive == videoB.title
        titleArtistLive ==
            <<"A", "b", " ", "-", " ", "S", "o", " ", "(", "L", "i", "v", "e", ")">>
        titleLiveRemixCover ==
            <<"S", "o", " ", "L", "i", "v", "e", " ", "R", "e", "m", "i", "x", " ",
              "C", "o", "v", "e", "r">>
        titleFourBad ==
            <<"L", "i", "v", "e", " ", "R", "e", "m", "i", "x", " ",
              "C", "o", "v", "e", "r", " ", "L", "y", "r", "i", "c", "s">>
        iso305 == <<"P", "T", "3", "M", "5", "S">>
        iso320 == <<"P", "T", "3", "M", "2", "0", "S">>
        iso325 == <<"P", "T", "3", "M", "2", "5", "S">>
        iso331 == <<"P", "T", "3", "M", "3", "1", "S">>
        iso335 == <<"P", "T", "3", "M", "3", "5", "S">>
    IN {<<titleOfficial, iso320>>, <<titleOfficial, iso335>>, <<titleLive, iso325>>,
        <<titleOfficial, videoC.duration>>,
        <<titleNo, iso305>>, <<titleNo, iso331>>, <<titleArtistLive, iso331>>,
        <<titleLiveRemixCover, iso335>>, <<titleFourBad, iso331>>}
\* the track's duration_ms: 3:20, and a millisecond less
ScoreTargets == {200000, 199999}
\* item k of a videos.list answer
Candidate(k, title, iso) ==
    [id |-> ToString(k), title |-> title, duration |-> iso,
     thumbMedium |-> NullStr, thumbDefault |-> "d", channelTitle |-> "ch"]

\* a service without keys and an empty table: the scorer reads neither
InitScore ==
    /\ apiKeys = LoadApiKeys(0)
    /\ currentKeyIndex = [s \in Svcs |-> 0]
    /\ cache = [s \in Svcs |-> EmptyMap]
    /\ db = <<>>
    /\ InitProcs
    /\ svc = [p \in Procs |-> "s1"]
    /\ pc = [p \in Procs |-> IF p = "p1" THEN "idle" ELSE "off"]

\* a call of findBestMatch with the items of a detail fetch for trackA
FindBestMatch(p) ==
    /\ p = "p1"
    /\ pc[p] = "idle"
    /\ \E n \in 0..MaxVideos :
       \E items \in [1..n -> ScoreItems], target \in ScoreTargets :
        LET list == [k \in 1..n |-> Candidate(k, items[k][1], items[k][2])]
        IN /\ videos' = [videos EXCEPT ![p] = list]
           /\ args' = [args EXCEPT ![p] = [trackName |-> trackA.name,
                                           artistName |-> trackA.artist,
                                           durationMs |-> target]]
           /\ bestMatch' = [bestMatch EXCEPT ![p] =
                  findBestMatch(list, target, trackA.name, trackA.artist)]
    /\ pc' = [pc EXCEPT ![p] = "scored"]
    /\ UNCHANGED <<service, batch, attempts, maxAttempts, apiKey, result, ret, history>>
    /\ UNCHANGED <<bestMatchInvidious, duration, videoDurationMs, fallback, cleared, page>>

\* a call of findBestMatchInvidious with the mirror's entries for the same videos
FindBestMatchInvidious(p) ==
    /\ pc[p] = "scored"
    /\ bestMatchInvidious' = [bestMatchInvidious EXCEPT ![p] =
           findBestMatchInvidious([k \in 1..Len(videos[p]) |-> MirrorOf(videos[p][k])],
                                  args[p].durationMs, args[p].trackName, args[p].artistName)]
    /\ pc' = [pc EXCEPT ![p] = "compared"]
    /\ UNCHANGED <<service, batch, frame, history>>
    /\ UNCHANGED <<videos, bestMatch, duration, videoDurationMs, fallback, cleared, page>>

NextScore == \E p \in Procs : FindBestMatch(p) \/ FindBestMatchInvidious(p)

SpecScore == InitScore /\ [][NextScore]_vars

\* ---------------------------------------------- searchWithInvidious on its own
INVIDIOUS_INSTANCES ==
    <<"https://invidious.fdn.fr", "https://inv.riverside.rocks",
      "https://invidious.slipfox.xyz", "https://invidious.protokolla.fi",
      "https://iv.ggtyler.dev">>

\* what a mirror does with the search: a response that is not ok, no response
\* within AbortSignal.timeout(5000), a rejected fetch or a body that is not JSON,
\* or a JSON body: null, an empty list, or entries
MirrorOutcomes == {"notOk", "timeout", "exception", "null", "empty", "entries"}
\* the entries of a JSON body: the mirror's entries for the primary item lists
MirrorLists == {[k \in 1..Len(l) |-> MirrorOf(l[k])] : l \in VideoLists}

\* only a fetch that threw sends the loop to the next mirror
MirrorFailedOnThrow(out) == out \in {"timeout", "exception"}

\* !response.ok and the catch block: continue
MirrorFailed(out) == out \in {"notOk", "timeout", "exception"}

\* a call of searchWithInvidious for trackA; nothing in the service makes it
SearchWithInvidiousStart(p) ==
    /\ p = "p1"
    /\ pc[p] = "idle"
    /\ pc' = [pc EXCEPT ![p] = "iv_fetch"]
    /\ args' = [args EXCEPT ![p] = [trackName |-> trackA.name,
                                    artistName |-> trackA.artist,
                                    durationMs |-> trackA.duration_ms]]
    /\ instance' = [instance EXCEPT ![p] = 0]
    /\ log' = [log EXCEPT ![p] = <<>>]
    /\ ret' = [ret EXCEPT ![p] = NULL]
    /\ UNCHANGED <<cleared, page, service, batch, attempts, maxAttempts, apiKey, result, cursor0, progress,
                   retLog, delays, scoring, currentInvidiousInstance>>

\* the fetch of mirror i settles and the loop body runs to its continue or return
InvidiousResponse(p) ==
    /\ pc[p] = "iv_fetch"
    /\ \E out \in MirrorOutcomes :
       \E entries \in (IF out = "entries" THEN MirrorLists ELSE {<<>>}) :
        LET url == INVIDIOUS_INSTANCES[instance[p] + 1]
            thrown == IF out \in {"timeout", "exception"} THEN "error" ELSE "none"
            found == findBestMatchInvidious(entries, args[p].durationMs,
                                            args[p].trackName, args[p].artistName)
        IN /\ log' = [log EXCEPT ![p] = Append(@, Event("invidious", url, out, thrown))]
           /\ IF MirrorFailed(out)
              THEN /\ instance' = [instance EXCEPT ![p] = @ + 1]
                   /\ pc' = [pc EXCEPT ![p] =
                          IF instance[p] + 1 < Len(INVIDIOUS_INSTANCES)
                          THEN "iv_fetch" ELSE "iv_return"]
                   /\ UNCHANGED <<ret, currentInvidiousInstance>>
              ELSE /\ pc' = [pc EXCEPT ![p] = "iv_return"]
                   /\ ret' = [ret EXCEPT ![p] = found]
                   /\ currentInvidiousInstance' =
                          IF found # NULL
                          THEN [currentInvidiousInstance EXCEPT ![svc[p]] = url]
                          ELSE currentInvidiousInstance
                   /\ UNCHANGED instance
    /\ UNCHANGED <<cleared, page, service, batch, args, attempts, maxAttempts, apiKey, result, cursor0,
                   progress, retLog, delays, scoring>>

\* the caller has the returned value
SearchWithInvidiousReturn(p) ==
    /\ pc[p] = "iv_return"
    /\ pc' = [pc EXCEPT ![p] = "idle"]
    /\ args' = [args EXCEPT ![p] = NoArgs]
    /\ instance' = [instance EXCEPT ![p] = 0]
    /\ log' = [log EXCEPT ![p] = <<>>]
    /\ ret' = [ret EXCEPT ![p] = NULL]
    /\ UNCHANGED <<cleared, page, service, batch, attempts, maxAttempts, apiKey, result, cursor0, progress,
                   retLog, delays, scoring, currentInvidiousInstance>>

NextInvidious ==
    \E p \in Procs :
        \/ SearchWithInvidiousStart(p)
        \/ InvidiousResponse(p)
        \/ SearchWithInvidiousReturn(p)

SpecInvidious == InitScore /\ [][NextInvidious]_vars

\* --------------------------------------------- parseISO8601Duration on its own
\* strings put together from a start, then hours, minutes and seconds, each
\* present or absent, then an end: "PT4M13S", "PT1H", "PT", and strings with
\* another start, a number without its unit, or something after the seconds
ParseInputs ==
    LET starts == {<<"P", "T">>, <<"P">>, <<"x", "P", "T">>}
        hours == {<<>>, <<"1", "H">>}
        minutes == {<<>>, <<"4", "M">>, <<"1", "2", "M">>}
        seconds == {<<>>, <<"1", "3", "S">>, <<"5">>}
        ends == {<<>>, <<"x">>}
    IN {a \o h \o m \o s \o z :
           a \in starts, h \in hours, m \in minutes, s \in seconds, z \in ends}

\* a call of parseISO8601Duration
ParseISO8601Duration(p) ==
    /\ p = "p1"
    /\ pc[p] = "idle"
    /\ \E d \in ParseInputs :
           /\ duration' = [duration EXCEPT ![p] = d]
           /\ videoDurationMs' = [videoDurationMs EXCEPT ![p] = parseISO8601Duration(d)]
    /\ pc' = [pc EXCEPT ![p] = "parsed"]
    /\ UNCHANGED <<cleared, page, service, batch, frame, history, videos, bestMatch, bestMatchInvidious,
                   fallback>>

NextParse == \E p \in Procs : ParseISO8601Duration(p)

SpecParse == InitScore /\ [][NextParse]_vars

\* ===================================================================
\* Properties
\* ===================================================================
Active == {p \in Procs : pc[p] # "off"}

\* the events of a log with a given operation
EventsOf(l, op) == SelectSeq(l, LAMBDA e : e.op = op)

\* the key of the resolution process p is working on
KeyOf(p) == CacheKey(args[p].trackName, args[p].artistName)

\* the provider search attempts process p has issued in the resolution in progress:
\* the completed search calls, and the one in flight
AttemptKeys(p) ==
    [k \in 1..Len(EventsOf(log[p], "search")) |-> EventsOf(log[p], "search")[k].key]
        \o (IF pc[p] = "yt_search" THEN <<apiKey[p]>> ELSE <<>>)

\* searchTrack is about to hand its value to searchTracks
Returning(p) == pc[p] = "st_return"

\* every search attempt of the resolution was answered with quotaExceeded
AllQuota(p) ==
    /\ Len(EventsOf(log[p], "search")) >= 1
    /\ \A k \in 1..Len(EventsOf(log[p], "search")) :
           EventsOf(log[p], "search")[k].out = "quotaExceeded"
    /\ EventsOf(log[p], "details") = <<>>

\* C1: when every provider search attempt of a cache-miss resolution reports
\* quotaExceeded, searchTrack returns null after exactly N attempts, N the number of
\* configured keys; with N = 1 rotateApiKey is called once and returns false.
C1_RotationExhaustion ==
    \A p \in Active :
        (Returning(p) /\ AllQuota(p)) =>
            /\ Len(EventsOf(log[p], "search")) = Len(apiKeys)
            /\ ret[p] = NULL
            /\ Len(apiKeys) = 1 =>
                   /\ Len(EventsOf(log[p], "rotate")) = 1
                   /\ EventsOf(log[p], "rotate")[1].out = "false"

\* two keys, both exhausted: two attempts, then null
C1_Witness ==
    \E p \in Active :
        /\ Returning(p) /\ AllQuota(p)
        /\ Len(apiKeys) = 2
        /\ Len(EventsOf(log[p], "search")) = 2
        /\ ret[p] = NULL

\* C2: within one searchTrack call the attempts issued never outnumber the
\* configured keys and no key is used for two attempts, whatever the provider answers.
C2_AttemptsBounded ==
    \A p \in Active :
        /\ Len(AttemptKeys(p)) <= Len(apiKeys)
        /\ \A j, k \in 1..Len(AttemptKeys(p)) :
               j # k => AttemptKeys(p)[j] # AttemptKeys(p)[k]

\* a second attempt with the second key succeeds after the first reported quota
C2_Witness ==
    \E p \in Active :
        /\ pc[p] = "db_write"
        /\ Len(AttemptKeys(p)) = 2
        /\ AttemptKeys(p)[1] # AttemptKeys(p)[2]
        /\ result[p] # NULL

\* the number of search attempts among the first k events of a log
SearchesUpTo(l, k) == Len(EventsOf(SubSeq(l, 1, k), "search"))

\* C3: whenever the provider signals quota exhaustion on a call of the two-step
\* query (the search call or the detail fetch), searchWithYouTube fails with
\* quotaExceeded, searchTrack calls rotateApiKey next, and when the rotation
\* succeeds and an untried key is left it retries the provider search.
C3_QuotaSignalRotates ==
    \A p \in Active :
        \A k \in 1..Len(log[p]) :
            (log[p][k].op \in {"search", "details"} /\ log[p][k].out = "quotaExceeded") =>
                /\ log[p][k].thrown = "quotaExceeded"
                /\ k < Len(log[p])
                /\ log[p][k + 1].op = "rotate"
                /\ (log[p][k + 1].out = "true" /\ SearchesUpTo(log[p], k) < Len(apiKeys)) =>
                       \/ k + 2 <= Len(log[p]) /\ log[p][k + 2].op = "search"
                       \/ k + 1 = Len(log[p]) /\ pc[p] = "yt_search"

\* the durable tier holds a row for this cache key
DbHas(key) ==
    \E k \in 1..Len(db) : CacheKey(db[k].track_name, db[k].artist_name) = key

\* the resolution in progress has read the durable tier and the read failed
DbReadFailed(p) ==
    \E k \in 1..Len(log[p]) : log[p][k].op = "dbRead" /\ log[p][k].out = "failed"

\* The key of the resolution in progress was in a cache tier when the resolution
\* started. With one resolution at a time the tiers change during a resolution
\* only by its own writes: a row it inserted itself was not there before.
PresentAtStart(p) ==
    /\ log[p] # <<>>
    /\ \/ log[p][1].out = "hit"
       \/ /\ DbHas(KeyOf(p))
          /\ \A k \in 1..Len(log[p]) : ~(log[p][k].op = "dbWrite" /\ log[p][k].out = "ok")

\* the resolution in progress has involved no provider call and no rotation, and
\* what it returns is the cached match
ResolvedFromCache(p) ==
    /\ pc[p] \notin {"yt_search", "yt_details", "db_write"}
    /\ EventsOf(log[p], "search") = <<>>
    /\ EventsOf(log[p], "details") = <<>>
    /\ EventsOf(log[p], "rotate") = <<>>
    /\ currentKeyIndex[svc[p]] = cursor0[p]
    /\ Returning(p) =>
           /\ ret[p] # NULL
           /\ KeyOf(p) \in DOMAIN cache[svc[p]]
           /\ ret[p] = cache[svc[p]][KeyOf(p)]
           /\ log[p][1].out = "miss" =>
                  \E k \in 1..Len(db) :
                      /\ CacheKey(db[k].track_name, db[k].artist_name) = KeyOf(p)
                      /\ ret[p].videoId = db[k].video_id
                      /\ ret[p].title = db[k].video_title

TierOrder(p) ==
    /\ log[p] # <<>> => log[p][1].op = "memory"
    /\ \A k \in 1..Len(log[p]) :
           log[p][k].op = "dbRead" => (k = 2 /\ log[p][1].out = "miss")
    /\ (log[p] # <<>> /\ log[p][1].out = "hit") => (Returning(p) /\ Len(log[p]) = 1)
    /\ (log[p] # <<>> /\ log[p][1].out = "miss") =>
           \/ pc[p] = "db_read" /\ Len(log[p]) = 1
           \/ Len(log[p]) >= 2 /\ log[p][2].op = "dbRead"

\* a durable hit is in the ephemeral tier when searchTrack returns it
DurableHitPopulates(p) ==
    (Len(log[p]) >= 2 /\ log[p][2].out = "hit") =>
        /\ Returning(p)
        /\ KeyOf(p) \in DOMAIN cache[svc[p]]
        /\ cache[svc[p]][KeyOf(p)] = ret[p]

\* the durable tier is read only for a key the ephemeral tier does not hold
DurableReadOnlyOnMiss(p) == pc[p] = "db_read" => KeyOf(p) \notin DOMAIN cache[svc[p]]

\* an entry of the ephemeral tier stays there
EphemeralKept == \A s \in Svcs : \A key \in DOMAIN cache[s] : key \in DOMAIN cache'[s]

\* C5: a lookup checks the ephemeral tier first and on an ephemeral hit does not
\* read the durable tier; on an ephemeral miss it reads the durable tier, and a
\* durable hit is written into the ephemeral tier before it is returned; the entry
\* stays, and a key that is in the ephemeral tier is never looked up in the durable
\* tier, so the next lookup of the key is an ephemeral hit.
C5_ReadThrough ==
    /\ [](\A p \in Active :
             TierOrder(p) /\ DurableHitPopulates(p) /\ DurableReadOnlyOnMiss(p))
    /\ [][EphemeralKept]_vars

\* without any key, the second track of a batch is an ephemeral hit: its entry
\* can only have come from the durable tier
C5_Witness ==
    \E p \in Active :
        /\ Returning(p)
        /\ Len(apiKeys) = 0
        /\ i[p] = 1
        /\ log[p][1].out = "hit"
        /\ KeyOf(p) = CacheKey(tracks[p][1].name, tracks[p][1].artist)

\* the last event of the resolution in progress
LastEvent(p) == log[p][Len(log[p])]

\* searchTrack is returning a match that the provider search found
ReturningProviderMatch(p) ==
    /\ Returning(p)
    /\ ret[p] # NULL
    /\ EventsOf(log[p], "details") # <<>>

\* the durable tier holds the record of this resolution's match
RowStored(p) ==
    \E k \in 1..Len(db) :
        /\ db[k].track_name = args[p].trackName
        /\ db[k].artist_name = args[p].artistName
        /\ db[k].duration_ms = args[p].durationMs
        /\ db[k].video_id = ret[p].videoId
        /\ db[k].video_title = ret[p].title
        /\ db[k].video_duration = ret[p].duration
        /\ db[k].thumbnail_url = ret[p].thumbnailUrl
        /\ db[k].channel_title = ret[p].channelTitle

\* an earlier query of the batch with the same key got a match
MatchedEarlier(p, k) ==
    /\ retLog[p][k].ret # NULL
    /\ CacheKey(retLog[p][k].args.trackName, retLog[p][k].args.artistName) = KeyOf(p)

\* C6: a non-null result of the provider search is in the ephemeral tier before
\* its save to the durable tier starts, the save has ended when searchTrack returns
\* the result, and the durable tier then holds the record when the insert went
\* through (or a record for the key when the insert met one); a later resolution
\* of the same artist and name, in any letter case, is an ephemeral hit that
\* returns the same match.
C6_WriteThrough ==
    \A p \in Active :
        /\ pc[p] = "db_write" =>
               /\ KeyOf(p) \in DOMAIN cache[svc[p]]
               /\ cache[svc[p]][KeyOf(p)] = result[p]
        /\ ReturningProviderMatch(p) =>
               /\ KeyOf(p) \in DOMAIN cache[svc[p]]
               /\ cache[svc[p]][KeyOf(p)] = ret[p]
               /\ LastEvent(p).op = "dbWrite"
               /\ LastEvent(p).out = "ok" => RowStored(p)
               /\ LastEvent(p).out = "conflict" => DbHas(KeyOf(p))
        /\ \A k \in 1..Len(retLog[p]) :
               (log[p] # <<>> /\ MatchedEarlier(p, k)) =>
                   /\ log[p][1].out = "hit"
                   /\ ret[p] = retLog[p][k].ret

\* the provider's match was saved, and the next track of the batch, the same
\* artist and name in another letter case, has been answered
C6_Witness ==
    \E p \in Active :
        /\ Returning(p)
        /\ i[p] = 1
        /\ Len(retLog[p]) = 1
        /\ MatchedEarlier(p, 1)
        /\ args[p].trackName # retLog[p][1].args.trackName
        /\ log[p][1].out = "hit"
        /\ Len(db) = 1
        /\ db[1] # seedRow
        /\ db[1].track_name = retLog[p][1].args.trackName
        /\ db[1].video_id = ret[p].videoId

\* a provider call that ended with a transport error or with an empty result
TransportOrEmpty(e) ==
    \/ e.op = "search" /\ e.out \in {"error", "empty"}
    \/ e.op = "details" /\ e.out = "error"

\* the detail fetch answered and no save of a match followed: findBestMatch found none
NoMatch(p, e) ==
    /\ e.op = "details" /\ e.out = "ok"
    /\ pc[p] # "db_write"
    /\ EventsOf(log[p], "dbWrite") = <<>>

\* event k ended the resolution with null: nothing follows it, the cursor is still
\* at the key of that attempt and neither tier has got an entry for the key
EndsWithNone(p, k) ==
    /\ k = Len(log[p])
    /\ Returning(p)
    /\ ret[p] = NULL
    /\ getCurrentApiKey(apiKeys, currentKeyIndex[svc[p]]) = log[p][k].key
    /\ KeyOf(p) \notin DOMAIN cache[svc[p]]
    /\ log[p][2].out = "miss" => ~DbHas(KeyOf(p))

\* C7: a provider search that ends with a transport error (network failure or a
\* non-quota HTTP error) or with an empty or no-match result ends the resolution
\* with null at once: no further attempt, no rotation, no write to either tier.
C7_NoRetryOnErrorOrEmpty ==
    \A p \in Active :
        \A k \in 1..Len(log[p]) :
            (TransportOrEmpty(log[p][k]) \/ NoMatch(p, log[p][k])) => EndsWithNone(p, k)

\* the first key reported quota, the attempt with the second key met a transport error
C7_Witness ==
    \E p \in Active :
        /\ Returning(p)
        /\ Len(EventsOf(log[p], "search")) = 2
        /\ LastEvent(p).op = "search"
        /\ LastEvent(p).out = "error"
        /\ currentKeyIndex[svc[p]] = 1

\* entry k of the output is input track k with the outcome of its own resolution
EntryOf(p, k) ==
    LET track == tracks[p][k]
        entry == results[p][k]
        done == retLog[p][k]
    IN /\ entry.name = track.name
       /\ entry.artist = track.artist
       /\ entry.duration_ms = track.duration_ms
       /\ entry.albumArt = track.albumArt
       /\ done.args.trackName = track.name
       /\ done.args.artistName = track.artist
       /\ done.args.durationMs = track.duration_ms
       /\ entry.matched = (done.ret # NULL)
       /\ done.ret = NULL =>
              /\ entry.youtubeId = NullStr
              /\ entry.youtubeTitle = NullText
              /\ entry.youtubeThumbnail = NullStr
       /\ done.ret # NULL =>
              /\ entry.youtubeId = done.ret.videoId
              /\ entry.youtubeTitle = done.ret.title
              /\ entry.youtubeThumbnail = done.ret.thumbnailUrl

\* C8: searchTracks is length- and order-preserving: the output never has more
\* entries than the input, has exactly n entries when searchTracks returns, and
\* entry k carries the fields of input track k and the outcome of the resolution
\* of that track, whatever the outcomes are.
C8_OrderPreserving ==
    \A p \in Active :
        /\ Len(results[p]) <= total[p]
        /\ Len(results[p]) = Len(retLog[p])
        /\ Len(results[p]) <= Len(tracks[p])
        /\ pc[p] = "done" => Len(results[p]) = total[p]
        /\ \A k \in 1..Len(results[p]) : EntryOf(p, k)

\* a batch of two different tracks, the first unmatched and the second matched
C8_Witness ==
    \E p \in Active :
        /\ pc[p] = "done"
        /\ total[p] = 2
        /\ tracks[p][1].name # tracks[p][2].name
        /\ ~results[p][1].matched
        /\ results[p][2].matched

\* C10: in every entry of the output, matched is false exactly when youtubeId is
\* null, for matches from the provider, the ephemeral tier and the durable tier.
C10_MatchedIffVideoId ==
    \A p \in Active :
        \A k \in 1..Len(results[p]) :
            (results[p][k].matched = FALSE) <=> (results[p][k].youtubeId = NullStr)

\* without a key: one entry matched from the durable tier, one unmatched
C10_Witness ==
    \E p \in Active :
        /\ pc[p] = "done"
        /\ Len(apiKeys) = 0
        /\ total[p] = 2
        /\ results[p][1].matched /\ results[p][1].youtubeId # NullStr
        /\ ~results[p][2].matched /\ results[p][2].youtubeId = NullStr

\* the resolution in progress got no answer from either cache tier
MissedBothTiers(p) ==
    /\ Len(log[p]) >= 2
    /\ log[p][1].op = "memory" /\ log[p][1].out = "miss"
    /\ log[p][2].op = "dbRead" /\ log[p][2].out # "hit"

\* C9 as stated: whatever failure occurs while query k is resolved, query k is
\* recorded as matched=false.  Violated: a failed database lookup or save, or a
\* quota error answered by a rotation, leaves the provider's match in place.
C9_FailureRecordsUnmatched ==
    \A p \in Active :
        \A k \in 1..Len(results[p]) :
            retLog[p][k].failed => ~results[p][k].matched

\* C9: no failure in the resolution of a query aborts the batch: searchTracks is
\* never rejected, a query whose resolution ends in failure without a match is
\* recorded as matched=false with a null video id, every query of the input gets
\* its entry, and every resolution that misses both cache tiers with a key
\* configured calls the provider, whatever happened to the queries before it.
C9_NoFailureAbortsBatch ==
    \A p \in Active :
        /\ pc[p] # "rejected"
        /\ \A k \in 1..Len(results[p]) :
               (retLog[p][k].failed /\ retLog[p][k].ret = NULL) =>
                   /\ ~results[p][k].matched
                   /\ results[p][k].youtubeId = NullStr
        /\ pc[p] = "done" => Len(results[p]) = total[p]
        /\ pc[p] \in {"sleep", "loop"} => Len(results[p]) < total[p]
        /\ (Returning(p) /\ MissedBothTiers(p) /\ Len(apiKeys) >= 1) =>
               EventsOf(log[p], "search") # <<>>

\* the first query ended in failure and was recorded unmatched; the second one,
\* whose database lookup failed too, is calling the provider
C9_Witness ==
    \E p \in Active :
        /\ pc[p] = "yt_search"
        /\ Len(results[p]) = 1
        /\ retLog[p][1].failed
        /\ ~results[p][1].matched
        /\ MissedBothTiers(p)
        /\ log[p][2].out = "failed"

\* a cache lookup, provider call or save of the current query is in flight or done
Resolving(p) == pc[p] \in {"db_read", "yt_search", "yt_details", "db_write", "st_return"}

\* the onProgress call of a query is made while none of its lookups has happened
\* and the entries of all queries before it are in results
ProgressCalledFirst ==
    \A p \in Procs :
        (progress'[p] # progress[p] /\ progress'[p] # <<>>) =>
            /\ pc[p] = "loop"
            /\ log[p] = <<>>
            /\ Len(results[p]) = Len(progress[p])
            /\ progress'[p] = Append(progress[p], <<Len(results[p]) + 1, total[p]>>)

\* C11: in a batch of n queries with a progress callback, onProgress is called
\* exactly n times, call k with arguments (k, n) counted from 1; it is made before
\* any cache lookup or provider call of query k and after the entry of query k-1
\* was appended.
C11_ProgressCalls ==
    /\ [](\A p \in Active :
            onProgress[p] =>
                /\ \A k \in 1..Len(progress[p]) : progress[p][k] = <<k, total[p]>>
                /\ Len(progress[p]) = Len(tracks[p])
                /\ Resolving(p) => Len(progress[p]) = Len(results[p]) + 1
                /\ pc[p] \in {"loop", "sleep", "done"} => Len(progress[p]) = Len(results[p])
                /\ pc[p] = "done" => Len(progress[p]) = total[p])
    /\ [][ProgressCalledFirst]_vars

\* a batch of two queries with a callback has ended
C11_Witness ==
    \E p \in Active :
        /\ pc[p] = "done"
        /\ onProgress[p]
        /\ total[p] = 2
        /\ progress[p] = << <<1, 2>>, <<2, 2>> >>

Max(a, b) == IF a >= b THEN a ELSE b

\* a query that is not the last of its batch is followed by the delay, whatever
\* its resolution returned
DelayAfterEveryOutcome ==
    \A p \in Procs :
        (Returning(p) /\ Len(results[p]) + 1 < total[p] /\ pc'[p] # pc[p]) =>
            pc'[p] = "sleep"

\* C12: a batch of n queries has exactly max(n-1, 0) delays, each of 100 ms: one
\* after each query but the last, elapsed before the resolution of the next query
\* starts, and made whether the query before it was a cache hit, a provider match
\* or a failure.
C12_DelaysBetweenQueries ==
    /\ [](\A p \in Active :
            /\ \A k \in 1..Len(delays[p]) : delays[p][k] = 100
            /\ Len(delays[p]) <= Max(total[p] - 1, 0)
            /\ pc[p] = "done" => Len(delays[p]) = Max(total[p] - 1, 0)
            /\ (pc[p] = "loop" \/ Resolving(p)) => Len(delays[p]) = Len(results[p])
            /\ pc[p] = "sleep" =>
                   /\ Len(delays[p]) = Len(results[p]) - 1
                   /\ Len(results[p]) < total[p])
    /\ [][DelayAfterEveryOutcome]_vars

\* a batch of two has ended with one delay, made after a query that failed
C12_Witness ==
    \E p \in Active :
        /\ pc[p] = "done"
        /\ total[p] = 2
        /\ delays[p] = <<100>>
        /\ retLog[p][1].failed /\ retLog[p][1].ret = NULL
        /\ retLog[p][2].ret # NULL

\* C13: with at least one key configured, 0 <= currentKeyIndex < number of keys
\* in every reachable state, for every service instance.
C13_CursorInRange ==
    Len(apiKeys) >= 1 =>
        \A s \in Svcs : 0 <= currentKeyIndex[s] /\ currentKeyIndex[s] < Len(apiKeys)

\* the cursor has wrapped: the resolution started on the last key and rotated
C13_Witness ==
    \E p \in Active :
        /\ Len(apiKeys) = 2
        /\ cursor0[p] = 1
        /\ currentKeyIndex[svc[p]] = 0
        /\ pc[p] = "yt_search"

\* a step that changes the cursor of a service moves it one position forward with
\* wrap-around, and is the catch of a provider call answered with quotaExceeded
CursorStep ==
    \A s \in Svcs :
        currentKeyIndex'[s] # currentKeyIndex[s] =>
            /\ Len(apiKeys) >= 2
            /\ currentKeyIndex'[s] = (currentKeyIndex[s] + 1) % Len(apiKeys)
            /\ \E p \in Procs :
                   /\ svc[p] = s
                   /\ pc[p] \in {"yt_search", "yt_details"}
                   /\ Len(log'[p]) = Len(log[p]) + 2
                   /\ log'[p][Len(log[p]) + 1].out = "quotaExceeded"
                   /\ log'[p][Len(log[p]) + 2].op = "rotate"

\* C14: every step leaves currentKeyIndex unchanged or sets it to
\* (currentKeyIndex + 1) mod N; it changes only on a quotaExceeded answer; it is
\* not reset between queries or batches: the first provider call of a query uses
\* the key at the cursor as the query before it left it.
C14_CursorMovesForward ==
    /\ [][CursorStep]_vars
    /\ [](\A p \in Active :
            (pc[p] = "yt_search" /\ EventsOf(log[p], "search") = <<>>) =>
                /\ currentKeyIndex[svc[p]] = cursor0[p]
                /\ apiKey[p] = apiKeys[cursor0[p] + 1])

\* a query starts on the second key, where an earlier query left the cursor
C14_Witness ==
    \E p \in Active :
        /\ pc[p] = "yt_search"
        /\ EventsOf(log[p], "search") = <<>>
        /\ cursor0[p] = 1
        /\ apiKey[p] = "2"

\* what a call of rotateApiKey by p does, seen as a step
RotateStep(p) ==
    LET s == svc[p]
        N == Len(apiKeys)
        returned == log'[p][Len(log'[p])].out
    IN (log'[p] # log[p]) =>
        /\ N <= 1 => /\ returned = "false"
                     /\ currentKeyIndex'[s] = currentKeyIndex[s]
        /\ N >= 2 => /\ returned = "true"
                     /\ currentKeyIndex'[s] = (currentKeyIndex[s] + 1) % N
                     /\ currentKeyIndex'[s] # currentKeyIndex[s]
        /\ \A o \in Svcs \ {s} : currentKeyIndex'[o] = currentKeyIndex[o]
        /\ apiKeys' = apiKeys
        /\ cache' = cache
        /\ db' = db

\* C15: rotateApiKey returns false and leaves the cursor where it is when the pool
\* has 0 or 1 keys; otherwise it returns true and moves the cursor one position
\* forward modulo the pool size; the key list and both cache tiers are unchanged.
C15_RotateApiKey == [][\A p \in Procs : RotateStep(p)]_vars

\* with two keys, two calls in a row returned true and the cursor is back where
\* it started; the caches have entries that the calls left alone
C15_Witness ==
    \E p \in Procs :
        /\ Len(apiKeys) = 2
        /\ Len(log[p]) = 2
        /\ log[p][1].out = "true" /\ log[p][2].out = "true"
        /\ cache[svc[p]] # EmptyMap
        /\ db # <<>>

\* the rows of the durable tier stored for a key
RowsOfKey(key) ==
    {k \in 1..Len(db) : CacheKey(db[k].track_name, db[k].artist_name) = key}

\* the resolution in progress missed in memory and got an answer from the database
DurableAnswered(p) ==
    /\ Len(log[p]) >= 2
    /\ log[p][2].op = "dbRead"
    /\ log[p][2].out # "failed"

\* C16: cache keys are case-insensitive: once a result is stored for (artist,
\* name), a lookup in any letter case of the same artist and name returns that
\* stored entry, from the ephemeral tier and from the durable tier.  Violated:
\* the durable lookup of a name with a pattern character can return the row of
\* another name.
C16_CaseInsensitiveLookup ==
    \A p \in Active :
        /\ (Returning(p) /\ log[p][1].out = "hit") =>
               ret[p] = cache[svc[p]][KeyOf(p)]
        /\ (Returning(p) /\ DurableAnswered(p) /\ Len(log[p]) = 2
                /\ RowsOfKey(KeyOf(p)) # {}) =>
               /\ log[p][2].out = "hit"
               /\ \E k \in RowsOfKey(KeyOf(p)) : ret[p] = ResultOfRow(db[k])

\* C17: a cached result is returned only when it was stored for a query with the
\* same artist and the same name up to letter case.  Violated: the durable lookup
\* matches by pattern, so a name with a pattern character gets the entry of
\* another name.
C17_ExactLookup ==
    \A p \in Active :
        (Returning(p) /\ DurableAnswered(p) /\ log[p][2].out = "hit") =>
            \E k \in RowsOfKey(KeyOf(p)) : ret[p] = ResultOfRow(db[k])

\* the rows of a table stored for a key
RowsIn(rows, key) ==
    {k \in 1..Len(rows) : CacheKey(rows[k].track_name, rows[k].artist_name) = key}

\* what a store by p does, seen as a step; args and result are what it was given
StoreStep(p) ==
    LET s == svc[p]
        key == CacheKey(args'[p].trackName, args'[p].artistName)
        found == result'[p]
        done == log'[p][Len(log'[p])]
        again == /\ key \in DOMAIN cache[s]
                 /\ cache[s][key] = found
                 /\ \E k \in RowsIn(db, key) : ResultOfRow(db[k]) = found
    IN (log'[p] # log[p]) =>
        /\ done.thrown = "none"
        /\ pc'[p] = pc[p]
        /\ DOMAIN cache'[s] = (DOMAIN cache[s]) \cup {key}
        /\ cache'[s][key] = found
        /\ Cardinality(RowsIn(db', key)) <= 1
        /\ again => /\ cache' = cache
                    /\ db' = db
                    /\ Cardinality(RowsIn(db', key)) = 1

\* C18: the cache store is idempotent: storing a (key, result) pair that is stored
\* already raises no error to the caller, leaves the durable tier with exactly
\* one record for the key and the ephemeral tier with the same single entry.
C18_StoreIdempotent == [][\A p \in Procs : StoreStep(p)]_vars

\* a session stored a pair in an empty table and then stored it again: the second
\* insert met the first one's row
C18_Witness ==
    \E p \in Procs :
        /\ Len(log[p]) = 2
        /\ log[p][1].out = "ok" /\ log[p][2].out = "conflict"
        /\ Len(db) = 1
        /\ ResultOfRow(db[1]) = result[p]
        /\ DOMAIN cache[svc[p]] = {KeyOf(p)}
        /\ cache[svc[p]][KeyOf(p)] = result[p]

\* the key both sessions resolve
SharedKey == CacheKey(trackA.name, trackA.artist)

\* rows are only ever added at the end: no insert replaces or removes a row
RowsKept ==
    /\ Len(db') >= Len(db)
    /\ \A k \in 1..Len(db) : db'[k] = db[k]

\* C19: two sessions with separate service instances and the shared durable store
\* resolve the same uncached key at the same time: in every interleaving neither
\* gets an error (a session whose provider search matched returns the match
\* whatever became of its insert), the durable tier never has more than one
\* record for the key and has exactly one when both have got a match with no
\* failure on the way, and the later insert does not replace the first record.
C19_ConcurrentSameKey ==
    /\ [](\A p \in Procs :
            /\ pc[p] # "rejected"
            /\ (Returning(p) /\ LastEvent(p).op = "dbWrite") =>
                   /\ LastEvent(p).thrown = "none"
                   /\ ret[p] # NULL
                   /\ ret[p] = result[p]
            /\ pc[p] = "done" => Len(results[p]) = 1
            /\ Cardinality(RowsIn(db, SharedKey)) <= 1)
    /\ []((\A p \in Procs : /\ pc[p] = "done"
                            /\ retLog[p][1].ret # NULL
                            /\ ~retLog[p][1].failed) =>
             Cardinality(RowsIn(db, SharedKey)) = 1)
    /\ [][RowsKept]_vars

\* both sessions missed both tiers and went to the provider; the first has its
\* match and its row, the second returns its own match after its insert met that row
C19_Witness ==
    \E p, q \in Procs :
        /\ p # q
        /\ pc[q] = "done" /\ results[q][1].matched /\ ~retLog[q][1].failed
        /\ Returning(p)
        /\ log[p][1].out = "miss" /\ log[p][2].out = "miss"
        /\ LastEvent(p).op = "dbWrite" /\ LastEvent(p).out = "conflict"
        /\ ret[p] # NULL
        /\ Len(db) = 1
        /\ ResultOfRow(db[1]) = retLog[q][1].ret

\* no resolution of session p is in progress
BetweenResolutions(p) == pc[p] \in {"idle", "loop", "sleep", "done"}

\* C20 as stated: between resolutions every key of the ephemeral tier has an entry
\* in the durable tier.  Violated: a match whose save failed stays in memory.
C20_EphemeralSubsetOfDurable ==
    \A p \in Active :
        BetweenResolutions(p) =>
            \A key \in DOMAIN cache[svc[p]] : DbHas(key)

\* an entry gets into the in-memory cache of a service only as the answer of the
\* durable lookup for its key, or as a provider match that is then saved
EphemeralOrigin ==
    \A s \in Svcs :
        cache'[s] # cache[s] =>
            \E p \in Procs :
                /\ svc[p] = s
                /\ DOMAIN cache'[s] = (DOMAIN cache[s]) \cup {KeyOf(p)}
                /\ \A key \in (DOMAIN cache[s]) \ {KeyOf(p)} : cache'[s][key] = cache[s][key]
                /\ \/ /\ pc[p] = "db_read"
                      /\ \E k \in 1..Len(db) : cache'[s][KeyOf(p)] = ResultOfRow(db[k])
                   \/ /\ pc[p] = "yt_details"
                      /\ pc'[p] = "db_write"
                      /\ cache'[s][KeyOf(p)] = result'[p]

\* C20 amended: every entry of the ephemeral tier is the answer of a durable
\* lookup or a fresh provider match whose save to the durable tier has ended when
\* the resolution returns; its key then has an entry in the durable tier unless
\* that save failed, and durable entries are never removed.
C20_EphemeralFromDurableOrSaved ==
    /\ [][EphemeralOrigin /\ RowsKept]_vars
    /\ [](\A p \in Active :
            /\ pc[p] = "db_write" => KeyOf(p) \in DOMAIN cache[svc[p]]
            /\ (Returning(p) /\ ret[p] # NULL /\ EventsOf(log[p], "details") # <<>>) =>
                   LastEvent(p).op = "dbWrite"
            /\ (Returning(p) /\ LastEvent(p).op = "dbWrite"
                    /\ LastEvent(p).out # "failed") =>
                   DbHas(KeyOf(p)))

\* a resolution returns a provider match whose save failed: the key is in the
\* ephemeral tier and not in the durable tier
C20_Witness ==
    \E p \in Active :
        /\ Returning(p)
        /\ LastEvent(p).op = "dbWrite" /\ LastEvent(p).out = "failed"
        /\ KeyOf(p) \in DOMAIN cache[svc[p]]
        /\ ~DbHas(KeyOf(p))

\* the durable lookup of the resolution in progress ended with this answer
DurableRead(p, out) ==
    /\ Len(log[p]) >= 2
    /\ log[p][2].op = "dbRead"
    /\ log[p][2].out = out

\* what follows a durable lookup that gave no row: the provider search with the
\* current key, or null at once when no key is configured
GoesOnToProvider(p) ==
    IF Len(apiKeys) = 0
    THEN Returning(p) /\ ret[p] = NULL /\ Len(log[p]) = 2
    ELSE \/ pc[p] = "yt_search" /\ Len(log[p]) = 2
         \/ Len(log[p]) >= 3 /\ log[p][3].op = "search"

\* C21: a failure of the durable tier is never fatal to a resolution: after a
\* failed lookup the resolution goes on as after a miss, to the provider search;
\* after a failed save searchTrack still returns the fresh match, which is in the
\* ephemeral tier and is what a later resolution of the key gets from it.
C21_DurableFailureNotFatal ==
    \A p \in Active :
        /\ pc[p] # "rejected"
        /\ DurableRead(p, "failed") => GoesOnToProvider(p)
        /\ DurableRead(p, "miss") => GoesOnToProvider(p)
        /\ (Returning(p) /\ LastEvent(p).op = "dbWrite" /\ LastEvent(p).out = "failed") =>
               /\ LastEvent(p).thrown = "none"
               /\ ret[p] # NULL
               /\ ret[p] = result[p]
               /\ KeyOf(p) \in DOMAIN cache[svc[p]]
               /\ cache[svc[p]][KeyOf(p)] = ret[p]
        /\ \A k \in 1..Len(retLog[p]) :
               (log[p] # <<>> /\ retLog[p][k].failed /\ MatchedEarlier(p, k)) =>
                   /\ log[p][1].out = "hit"
                   /\ ret[p] = retLog[p][k].ret

\* the lookup failed, the provider matched, the save failed, the match is returned
C21_Witness ==
    \E p \in Active :
        /\ Returning(p)
        /\ DurableRead(p, "failed")
        /\ LastEvent(p).op = "dbWrite" /\ LastEvent(p).out = "failed"
        /\ ret[p] # NULL

\* An earlier resolution of the batch found the durable tier unavailable.  The
\* history keeps one failure flag per resolution; it stands for a durable failure
\* when no provider call can have failed (no key) or, with one key, when the
\* resolution still ended with a match (a provider error ends it with null).
DurableFailedEarlier(p) ==
    \E k \in 1..Len(retLog[p]) :
        /\ retLog[p][k].failed
        /\ \/ Len(apiKeys) = 0
           \/ Len(apiKeys) = 1 /\ retLog[p][k].ret # NULL

\* C22: once the durable tier has been found unavailable, no later resolution
\* issues a durable read or write.  Violated: the service keeps no record of the
\* failure and the next resolution that misses in memory reads the table again.
C22_EphemeralOnlyAfterFailure ==
    \A p \in Active :
        DurableFailedEarlier(p) =>
            /\ pc[p] \notin {"db_read", "db_write"}
            /\ EventsOf(log[p], "dbRead") = <<>>
            /\ EventsOf(log[p], "dbWrite") = <<>>

\* the resolution in progress could not use the primary provider: no key is
\* configured, or every key it tried reported quotaExceeded
PrimaryUnusable(p) ==
    /\ MissedBothTiers(p)
    /\ \/ Len(apiKeys) = 0
       \/ AllQuota(p) /\ Len(EventsOf(log[p], "search")) = Len(apiKeys)

\* C23: when the primary provider is unusable for a cache-miss query, the mirror
\* pool is tried (searchWithInvidious) before the resolution ends with null.
\* Violated: searchTrack returns null on both paths and nothing calls
\* searchWithInvidious.
C23_FallsBackToMirrors ==
    \A p \in Active :
        (Returning(p) /\ PrimaryUnusable(p)) =>
            EventsOf(log[p], "invidious") # <<>>

\* findBestMatch has returned for p
Scored(p) == pc[p] \in {"scored", "compared"}
\* |videoDurationMs - targetDurationMs| of candidate k of p's call
DiffOf(p, k) == Abs(parseISO8601Duration(videos[p][k].duration) - args[p].durationMs)
\* the terms of either list that candidate k's title holds
BonusesOf(p, k) ==
    CountIncluded(ToLowerCase(videos[p][k].title),
                  SearchTerms(args[p].trackName, args[p].artistName))
PenaltiesOf(p, k) == CountIncluded(ToLowerCase(videos[p][k].title), BadTerms)
\* the position of the returned candidate
Returned(p, k) == bestMatch[p] # NULL /\ bestMatch[p].videoId = videos[p][k].id

\* C24: a candidate 15001 ms or more away from the target is never returned,
\* whatever its title; a candidate exactly 15000 ms away is eligible, so it is
\* returned when it is the only one inside the window and its score, base 50 plus
\* bonuses minus penalties, is positive.
C24_ToleranceWindow ==
    \A p \in Procs : Scored(p) =>
        \A k \in 1..Len(videos[p]) :
            /\ DiffOf(p, k) >= 15001 => ~Returned(p, k)
            /\ DiffOf(p, k) = 15000 =>
                   /\ ScoreOf(DiffOf(p, k), 0, 0) = Num(FALSE, FromInt(50))
                   /\ ( /\ \A j \in 1..Len(videos[p]) : j # k => DiffOf(p, j) > 15000
                        /\ 50 + 10 * BonusesOf(p, k) - 20 * PenaltiesOf(p, k) > 0 )
                      => Returned(p, k)
\* a candidate with four search terms in its title, 15001 ms away, lost to a
\* candidate with none
C24_Witness ==
    /\ Scored("p1")
    /\ Len(videos["p1"]) = 2
    /\ DiffOf("p1", 1) = 15001 /\ BonusesOf("p1", 1) = 4 /\ PenaltiesOf("p1", 1) = 0
    /\ DiffOf("p1", 2) < 15000 /\ BonusesOf("p1", 2) = 0
    /\ Returned("p1", 2)

\* candidate k is inside the tolerance window
InWindow(p, k) == DiffOf(p, k) <= 15000
\* 300 times the score of the rules in exact arithmetic, an integer:
\* 100 - (diff / 15000) * 50 is (30000 - diff) / 300, +10 is +3000, -20 is -6000
Exact300(p, k) == (30000 - DiffOf(p, k)) + 3000 * BonusesOf(p, k) - 6000 * PenaltiesOf(p, k)
\* the candidates a scorer may pick from: inside the window, with a positive score
Eligible(p) == {k \in 1..Len(videos[p]) : InWindow(p, k) /\ Exact300(p, k) > 0}
\* the pick of a reference scorer that computes exactly: the first of the
\* candidates with the highest score
ReferencePick(p) ==
    {k \in Eligible(p) : \A j \in Eligible(p) :
        Exact300(p, j) < Exact300(p, k) \/ (Exact300(p, j) = Exact300(p, k) /\ k <= j)}

\* C25 as stated: the score is the exact value of the rules, and the candidate
\* returned is the one a reference scorer computing exactly picks.  Violated: the
\* score is a double, and of two candidates whose exact scores are equal the
\* later one is returned when its rounded score is the greater
\* (63.33333333333334 after +10 +10 -20 against 63.333333333333336).
C25_ExactReferenceScorer ==
    \A p \in Procs : Scored(p) =>
        /\ bestMatch[p] = NULL <=> ReferencePick(p) = {}
        /\ \A k \in 1..Len(videos[p]) : Returned(p, k) <=> k \in ReferencePick(p)

\* C25, amended: the score is the value of the rules computed in double
\* arithmetic, and the candidate returned is one of those with the highest exact
\* score: the one a reference scorer picks unless candidates tie for it exactly.
C25_ReferenceScorerUpToTies ==
    \A p \in Procs : Scored(p) =>
        /\ bestMatch[p] = NULL <=> ReferencePick(p) = {}
        /\ \A k \in 1..Len(videos[p]) :
               Returned(p, k) =>
                   /\ k \in Eligible(p)
                   /\ \A j \in Eligible(p) : Exact300(p, j) <= Exact300(p, k)
\* the example: B, 5000 ms away with "So (Live)" (73.3), then A, a perfect
\* duration with four search terms (140); A is returned
C25_Witness ==
    /\ Scored("p1")
    /\ Len(videos["p1"]) = 2
    /\ Exact300("p1", 1) = 22000 /\ Exact300("p1", 2) = 42000
    /\ Score(videos["p1"][2], args["p1"].durationMs, args["p1"].trackName,
             args["p1"].artistName) = Num(FALSE, FromInt(140))
    /\ Returned("p1", 2)

\* the score findBestMatch computes for candidate k
ScoreAt(p, k) ==
    Score(videos[p][k], args[p].durationMs, args[p].trackName, args[p].artistName)
\* a is the higher score: a - b is positive
Higher(a, b) ==
    LET d == AddN(a, Num(~b.neg /\ b.mag # ZeroM, b.mag)) IN ~d.neg /\ d.mag # ZeroM
\* the candidates inside the window
Window(p) == {k \in 1..Len(videos[p]) : InWindow(p, k)}

\* C26: the candidate returned has the highest score, strictly higher than the
\* score of every candidate before it; of candidates tied for the highest score
\* the first is returned, and the candidates after it do not change the result.
\* The score is the number the code computes.
C26_FirstOfHighest ==
    \A p \in Procs : Scored(p) =>
        \A k \in 1..Len(videos[p]) :
            Returned(p, k) =>
                /\ k \in Window(p)
                /\ \A j \in Window(p) :
                       IF j < k THEN Higher(ScoreAt(p, k), ScoreAt(p, j))
                       ELSE ~Higher(ScoreAt(p, j), ScoreAt(p, k))
                /\ bestMatch[p] = findBestMatch(SubSeq(videos[p], 1, k), args[p].durationMs,
                                                args[p].trackName, args[p].artistName)
\* two candidates with the same title and duration tie for the highest score; the
\* first is returned
C26_Witness ==
    /\ Scored("p1")
    /\ Len(videos["p1"]) = 2
    /\ Window("p1") = {1, 2}
    /\ ScoreAt("p1", 1) = ScoreAt("p1", 2)
    /\ Returned("p1", 1)

\* C27: no candidate whose final score is <= 0 is returned; when every candidate
\* inside the window scores <= 0, or none is inside it, the result is null, also
\* when exactly one candidate is inside the window.
C27_NoMatchAtOrBelowZero ==
    \A p \in Procs : Scored(p) =>
        /\ \A k \in 1..Len(videos[p]) :
               Returned(p, k) =>
                   /\ Exact300(p, k) > 0
                   /\ Higher(ScoreAt(p, k), Num(FALSE, ZeroM))
        /\ (\A k \in Window(p) : Exact300(p, k) <= 0) => bestMatch[p] = NULL
\* the only candidate inside the window scores 50 + 10 - 60 = 0; the result is null
C27_Witness ==
    /\ Scored("p1")
    /\ Len(videos["p1"]) = 2
    /\ Window("p1") = {2}
    /\ DiffOf("p1", 2) = 15000 /\ BonusesOf("p1", 2) = 1 /\ PenaltiesOf("p1", 2) = 3
    /\ ScoreAt("p1", 2) = Num(FALSE, ZeroM)
    /\ bestMatch["p1"] = NULL

\* both scorers have returned for p
Compared(p) == pc[p] = "compared"
\* the fallback scorer returned the candidate at position k
ReturnedInvidious(p, k) ==
    bestMatchInvidious[p] # NULL /\ bestMatchInvidious[p].videoId = videos[p][k].id

\* C28: on the mirror's entries for the same videos findBestMatchInvidious returns
\* null exactly when findBestMatch does, and otherwise the candidate at the same
\* position with the same videoId, title and duration.
C28_ScorersAgree ==
    \A p \in Procs : Compared(p) =>
        /\ bestMatchInvidious[p] = NULL <=> bestMatch[p] = NULL
        /\ \A k \in 1..Len(videos[p]) : ReturnedInvidious(p, k) <=> Returned(p, k)
        /\ bestMatch[p] # NULL =>
               /\ bestMatchInvidious[p].videoId = bestMatch[p].videoId
               /\ bestMatchInvidious[p].title = bestMatch[p].title
               /\ bestMatchInvidious[p].duration = bestMatch[p].duration
\* both scorers return the second of two candidates, the first of which is inside
\* the window too
C28_Witness ==
    /\ Compared("p1")
    /\ Len(videos["p1"]) = 2
    /\ Window("p1") = {1, 2}
    /\ Returned("p1", 2)
    /\ ReturnedInvidious("p1", 2)

\* the mirrors p's call has contacted, in order, with what each did
Contacts(p) == EventsOf(log[p], "invidious")
\* a non-200 response, a timeout or an exception
FailedContact(e) == e.out \in {"notOk", "timeout", "exception"}

\* C29: the k-th mirror contacted is the k-th of the list; every mirror contacted
\* before another one failed; the call returns right after the first mirror that
\* answered, or after all five have failed, and then it returns null.
C29_MirrorsInOrder ==
    \A p \in Procs :
        LET c == Contacts(p)
        IN /\ Len(c) <= Len(INVIDIOUS_INSTANCES)
           /\ \A k \in 1..Len(c) : c[k].key = INVIDIOUS_INSTANCES[k]
           /\ \A k \in 1..(Len(c) - 1) : FailedContact(c[k])
           /\ pc[p] = "iv_fetch" => \A k \in 1..Len(c) : FailedContact(c[k])
           /\ pc[p] = "iv_return" =>
                  /\ c # <<>>
                  /\ FailedContact(c[Len(c)]) =>
                         /\ Len(c) = Len(INVIDIOUS_INSTANCES)
                         /\ ret[p] = NULL
\* two mirrors failed, one with a response that is not ok and one by a timeout,
\* and the third answered with a match: the call returns it and no fourth mirror
\* was contacted
C29_Witness ==
    /\ pc["p1"] = "iv_return"
    /\ Len(Contacts("p1")) = 3
    /\ Contacts("p1")[1].out = "notOk"
    /\ Contacts("p1")[2].out = "timeout"
    /\ Contacts("p1")[3].out = "entries"
    /\ ret["p1"] # NULL
    /\ currentInvidiousInstance["s1"] = INVIDIOUS_INSTANCES[3]

\* the runs of digits in d, and no digits
DigitRunsOf(d) ==
    {r \in {SubSeq(d, a, b) : a \in 1..Len(d), b \in 0..Len(d)} \cup {<<>>} :
        \A k \in 1..Len(r) : r[k] \in {"0", "1", "2", "3", "4", "5", "6", "7", "8", "9"}}
\* the number a run of digits writes, 0 for no digits
RECURSIVE Decimal(_, _)
Decimal(r, acc) ==
    IF r = <<>> THEN acc
    ELSE Decimal(Tail(r), 10 * acc + (CHOOSE v \in 0..9 : ToString(v) = Head(r)))
\* n and its unit, or nothing for no digits
Part(r, unit) == IF r = <<>> THEN <<>> ELSE r \o <<unit>>
\* PT[nH][nM][nS] with these hours, minutes and seconds
FormOf(h, m, s) == <<"P", "T">> \o Part(h, "H") \o Part(m, "M") \o Part(s, "S")
\* the ways to read d as PT[nH][nM][nS]: at most one
ReadingsOf(d) ==
    {hms \in DigitRunsOf(d) \X DigitRunsOf(d) \X DigitRunsOf(d) :
        d = FormOf(hms[1], hms[2], hms[3])}
Parsed(p) == pc[p] = "parsed"

\* C30: for a string of the form PT[nH][nM][nS] the value returned is
\* (H * 3600 + M * 60 + S) * 1000, an absent part counting 0; for every other
\* string it is 0.  Violated: the pattern is matched anywhere in the string and
\* need not reach its end, so "PT1Hx" gives 3600000 and "xPT4M" gives 240000.
C30_ParsesFormElseZero ==
    \A p \in Procs : Parsed(p) =>
        /\ \A hms \in ReadingsOf(duration[p]) :
               videoDurationMs[p] =
                   (Decimal(hms[1], 0) * 3600 + Decimal(hms[2], 0) * 60 + Decimal(hms[3], 0))
                   * 1000
        /\ ReadingsOf(duration[p]) = {} => videoDurationMs[p] = 0

\* a network call of p's batch is in flight: a durable read or write, a search or
\* a detail fetch
InFlight(p) == pc[p] \in {"db_read", "yt_search", "yt_details", "db_write"}

\* C31: while a network call of a batch is in flight it belongs to query i, the
\* only query read from the list and not yet answered: the results of the i
\* queries before it are appended, their resolutions have returned, and every
\* call logged belongs to the resolution in progress.
C31_OneQueryAtATime ==
    \A p \in Active :
        /\ InFlight(p) =>
               /\ Len(tracks[p]) = i[p] + 1
               /\ Len(results[p]) = i[p]
               /\ Len(retLog[p]) = i[p]
               /\ args[p] = [trackName |-> tracks[p][i[p] + 1].name,
                             artistName |-> tracks[p][i[p] + 1].artist,
                             durationMs |-> tracks[p][i[p] + 1].duration_ms]
        /\ pc[p] \in {"loop", "sleep", "done"} =>
               /\ log[p] = <<>>
               /\ Len(tracks[p]) = Len(results[p])
               /\ Len(retLog[p]) = Len(results[p])
\* the search of the second query is in flight; the first query went to the
\* provider, was saved and has its entry in results
C31_Witness ==
    /\ pc["p1"] = "yt_search"
    /\ i["p1"] = 1
    /\ Len(results["p1"]) = 1
    /\ results["p1"][1].matched
    /\ retLog["p1"][1].ret # NULL

\* the configured keys p's resolution has not used for an attempt
UntriedKeys(p) ==
    {apiKeys[k] : k \in 1..Len(apiKeys)} \ {AttemptKeys(p)[k] : k \in 1..Len(AttemptKeys(p))}

\* C32: with two resolutions interleaved on the one service, the attempts of each
\* have pairwise distinct keys, and none ends with null after quotaExceeded
\* answers while a configured key is untried by it.  Violated: both searches with
\* key 1 report quotaExceeded, the first rotation moves the cursor to key 2 and the
\* second moves it back to key 1, which that resolution then uses again.
C32_DistinctKeysWhenInterleaved ==
    \A p \in Active :
        /\ \A j, k \in 1..Len(AttemptKeys(p)) :
               j # k => AttemptKeys(p)[j] # AttemptKeys(p)[k]
        /\ (Returning(p) /\ AllQuota(p)) => UntriedKeys(p) = {}

\* the earlier queries of the batch with the key of the one in progress
EarlierOfKey(p) ==
    {k \in 1..Len(retLog[p]) :
        CacheKey(retLog[p][k].args.trackName, retLog[p][k].args.artistName) = KeyOf(p)}

\* the key was resolved earlier in the batch, and the last time with null
UnmatchedEarlier(p) ==
    \E k \in EarlierOfKey(p) :
        /\ retLog[p][k].ret = NULL
        /\ \A j \in EarlierOfKey(p) : j <= k

\* C33 as stated: when searchTrack returns null neither tier holds an entry for
\* the key, and a later resolution of the same query goes to the provider again.
\* Violated: the durable tier holds the row of an earlier session, the lookup
\* fails, and the provider search finds nothing; the row is still there, and the
\* later resolution is answered by it when its lookup succeeds.
C33_NoEntryAfterNone ==
    \A p \in Active :
        /\ (Returning(p) /\ ret[p] = NULL) =>
               /\ KeyOf(p) \notin DOMAIN cache[svc[p]]
               /\ ~DbHas(KeyOf(p))
        /\ (Returning(p) /\ UnmatchedEarlier(p)) =>
               /\ MissedBothTiers(p)
               /\ GoesOnToProvider(p)

\* C33, amended: a resolution that returns null has written to neither tier: the
\* ephemeral tier holds no entry for the key, and the durable tier holds one only
\* when it held it before and the lookup failed; the next resolution of the same
\* query is no ephemeral hit, and it goes to the provider again unless the
\* durable tier answers it with such a row.
C33_NoneIsNotCached ==
    \A p \in Active :
        /\ (Returning(p) /\ ret[p] = NULL) =>
               /\ KeyOf(p) \notin DOMAIN cache[svc[p]]
               /\ EventsOf(log[p], "dbWrite") = <<>>
               /\ DbHas(KeyOf(p)) => DbReadFailed(p)
        /\ (Returning(p) /\ UnmatchedEarlier(p)) =>
               /\ log[p][1].out = "miss"
               /\ DurableRead(p, "hit") \/ (MissedBothTiers(p) /\ GoesOnToProvider(p))
\* the first query got candidates none of which matched; the second query, the
\* same track, was searched for again
C33_Witness ==
    /\ Returning("p1")
    /\ Len(apiKeys) >= 1
    /\ Len(retLog["p1"]) = 1
    /\ UnmatchedEarlier("p1")
    /\ ~retLog["p1"][1].failed
    /\ EventsOf(log["p1"], "search") # <<>>
    /\ ~DbHas(KeyOf("p1"))

\* the k-th event of p's log is a detail fetch that follows a search call with
\* the same key which returned candidates
PairedDetails(l, k) ==
    /\ k > 1
    /\ l[k-1].op = "search"
    /\ l[k-1].out = "items"
    /\ l[k-1].thrown = "none"
    /\ l[k-1].key = l[k].key

\* C34: an attempt starts with the key at the cursor; its detail fetch comes
\* right after its search call returned candidates and carries the same key,
\* whatever the other resolution did to the cursor in between.
C34_OneKeyPerAttempt ==
    [][\A p \in Procs :
          /\ (pc'[p] = "yt_search" /\ (pc[p] # "yt_search" \/ attempts'[p] # attempts[p])) =>
                 apiKey'[p] = getCurrentApiKey(apiKeys', currentKeyIndex'[svc'[p]])
          /\ pc'[p] = "yt_details" =>
                 /\ log'[p] # <<>>
                 /\ log'[p][Len(log'[p])].op = "search"
                 /\ log'[p][Len(log'[p])].out = "items"
                 /\ log'[p][Len(log'[p])].key = apiKey'[p]
          /\ \A k \in 1..Len(log'[p]) :
                 log'[p][k].op = "details" => PairedDetails(log'[p], k)]_vars
\* the detail fetch of p1 went out with the key of its search call after p2 had
\* moved the cursor to the other key
C34_Witness ==
    /\ svc["p1"] = svc["p2"]
    /\ log["p1"] # <<>>
    /\ LastEvent("p1").op = "details"
    /\ PairedDetails(log["p1"], Len(log["p1"]))
    /\ LastEvent("p1").key # getCurrentApiKey(apiKeys, currentKeyIndex[svc["p1"]])
    /\ EventsOf(log["p1"], "rotate") = <<>>
    /\ EventsOf(log["p2"], "rotate") # <<>>

\* searchTracks is between its call and its return
InBatch(p) == pc[p] \in {"loop", "db_read", "yt_search", "yt_details", "db_write",
                          "st_return", "sleep"}

\* C35: when every awaited call comes back, a resolution in progress reaches its
\* return and a batch in progress reaches its end; a resolution makes at most as
\* many provider attempts as there are keys, and the batch ends after one
\* resolution per query.
C35_Terminates ==
    /\ [](\A p \in Procs :
            /\ Len(AttemptKeys(p)) <= Len(apiKeys)
            /\ pc[p] = "done" => (Len(retLog[p]) = total[p] /\ Len(results[p]) = total[p]))
    /\ \A p \in Procs :
            /\ (InFlight(p) ~> Returning(p))
            /\ (InBatch(p) ~> pc[p] = "done")
\* a batch of two queries ended; the provider was asked for the second one with
\* every key
C35_Witness ==
    /\ pc["p1"] = "done"
    /\ total["p1"] = 2
    /\ Len(retLog["p1"]) = 2
    /\ Len(apiKeys) = 2
    /\ retLog["p1"][2].failed
    /\ retLog["p1"][2].ret = NULL
    /\ currentKeyIndex[svc["p1"]] = 0

\* a step of clearCache on service s: keys leave its in-memory cache
ClearStep(s) == (DOMAIN cache[s]) \ (DOMAIN cache'[s]) # {}

\* a clearCache step empties the in-memory cache of its service and leaves the
\* durable tier, the key list and the cursor alone
ClearsEphemeralOnly ==
    \A s \in Svcs :
        /\ ClearStep(s) => (cache'[s] = EmptyMap /\ UNCHANGED <<db, apiKeys, currentKeyIndex>>)
        /\ (\E p \in Procs : svc[p] = s /\ cleared'[p] # cleared[p]) => cache'[s] = EmptyMap

\* the resolution p is returning from was answered by a cache tier: a match, and
\* no provider call
AnsweredWithoutProvider(p) ==
    /\ ret[p] # NULL
    /\ EventsOf(log[p], "search") = <<>>
    /\ EventsOf(log[p], "details") = <<>>
    /\ log[p][1].out = "hit" \/ DurableRead(p, "hit")

\* C36 as stated: clearCache empties the ephemeral tier only, and a key that was
\* cached before it is afterwards resolved from the durable tier, without a
\* provider call.  Violated: the save of the key's match had failed, so the key
\* was in memory only and the resolution after the clear searches again.
C36_ClearedKeysStayResolved ==
    [][/\ ClearsEphemeralOnly
       /\ \A p \in Procs :
              (Returning(p)' /\ KeyOf(p)' \in cleared'[p]) => AnsweredWithoutProvider(p)']_vars

\* C36, amended: clearCache empties the ephemeral tier only; a key that was cached
\* before it is afterwards resolved without a provider call, from the durable
\* tier, unless the durable lookup fails or finds no row for the key.
C36_ClearedKeysResolvedIfStored ==
    [][/\ ClearsEphemeralOnly
       /\ \A p \in Procs :
              (Returning(p)' /\ KeyOf(p)' \in cleared'[p]) =>
                  \/ AnsweredWithoutProvider(p)'
                  \/ DurableRead(p, "failed")'
                  \/ DurableRead(p, "miss")']_vars
\* after a clearCache the key of an earlier match was answered by the durable
\* tier and is in memory again
C36_Witness ==
    /\ Returning("p1")
    /\ KeyOf("p1") \in cleared["p1"]
    /\ DurableRead("p1", "hit")
    /\ AnsweredWithoutProvider("p1")
    /\ Len(apiKeys) >= 1

\* C37: once every incrementViewCount call that was made has returned, the stored
\* view count has grown by the number of calls that ended without an error.
\* Violated: two viewers read the same count before either writes, and both
\* write that count plus one.
C37_OnePerCompletedCall ==
    (\A p \in Procs : pc[p] = "idle") => view_count = completed

\* the first position after index, in cyclic order and ending with index itself,
\* whose track has a youtubeId
FirstPlayableAfter(list, index) ==
    LET at(d) == (index + d) % Len(list)
        d0 == CHOOSE d \in 1..Len(list) :
                  HasId(list, at(d)) /\ \A e \in 1..(d - 1) : ~HasId(list, at(e))
    IN at(d0)

\* C38: a handleNext call, whoever made it, has left currentTrackIndex at the
\* first track after the one that was current that has a youtubeId, when the
\* playlist has such a track; its loop took at most as many steps as the playlist
\* has tracks, and the index is a position of the playlist.
\* Violated: the player's handlers call the handleNext of the render that created
\* the player, which starts from the track that was current then.
C38_NextPlayableTrack ==
    moved # NULL =>
        /\ (\E k \in 0..(Len(playlistData) - 1) : HasId(playlistData, k)) =>
               moved.nextIndex = FirstPlayableAfter(playlistData, moved.index)
        /\ moved.attempts <= Len(playlistData)
        /\ moved.nextIndex \in 0..(Len(playlistData) - 1)
        /\ currentTrackIndex = moved.nextIndex

====
